---- MODULE Spec2Model ----
(***************************************************************************)
(* The isotope mass-analysis record store (src/schema.md), the isotope     *)
(* analysis platform schema (src/unnamed/part_002) and the dashboards that *)
(* read them (src/unnamed/part_001, src/app/page.tsx).                     *)
(*                                                                         *)
(* Tables are sets of rows.  A REAL column holds an integer where the      *)
(* inputs are integers; a REAL column that holds a quotient holds a        *)
(* reduced fraction <<numerator, denominator>>.  A nullable column holds   *)
(* NULL (the empty tuple) or its value.  One action is one SQL statement   *)
(* (autocommit), with the BEFORE ROW triggers, CHECK and UNIQUE            *)
(* constraints per row in row order and the foreign keys at the end of the *)
(* statement; a statement that raises leaves every table as it was.        *)
(***************************************************************************)
EXTENDS Integers, Sequences, FiniteSets, TLC

VARIABLES
    analysis_sessions,   \* schema.md table 1
    analysis_plots,      \* schema.md table 2
    isotope_detections,  \* schema.md table 3
    mass_estimates,      \* schema.md table 4
    analysis_summary,    \* schema.md table 5
    sqlstate,            \* the SQLSTATE the last statement returned to its client
    request,             \* what the last statement sent, where a specification logs it
    isotope_analyses,    \* part_002 table isotope_analyses
    latestAnalyses,      \* part_001 AnalysisDashboard state
    selectedAnalysis,
    detections,
    massEstimates,
    plots,
    loading,
    mounted,              \* whether AnalysisDashboard is mounted
    fetchLatestAnalyses,  \* where the call of fetchLatestAnalyses stands
    fetchAnalysisDetails, \* the calls of fetchAnalysisDetails, one per slot
    seen,                 \* per call, the states of its session since it began
    IsotopeDashboard      \* src/app/page.tsx: the state of the component, its
                          \* calls of fetchAnalyses and the timers of the window

tables == <<analysis_sessions, analysis_plots, isotope_detections,
            mass_estimates, analysis_summary>>

dashboard == <<latestAnalyses, selectedAnalysis, detections, massEstimates, plots,
               loading, mounted, fetchLatestAnalyses, fetchAnalysisDetails>>

vars == <<analysis_sessions, analysis_plots, isotope_detections,
          mass_estimates, analysis_summary, sqlstate, request,
          isotope_analyses, dashboard, seen, IsotopeDashboard>>

\* What a statement on the five tables leaves alone, when no specification
\* logs what it sent.
unlogged == <<request, isotope_analyses, dashboard, seen, IsotopeDashboard>>

\* The same, when a specification logs what the statement sent.
Logged(sent) ==
    request' = sent /\ UNCHANGED <<isotope_analyses, dashboard, seen, IsotopeDashboard>>

\* ------------------------------------------------------------------ bounds

MaxSessions == 2
MaxBatch == 2
MaxRanked == 3
MaxPlots == 2
MaxCalls == 2
MaxAnalyses == 2
MaxReturned == 3
MaxFetches == 2
MaxListed == 6
MaxToggles == 2

\* ------------------------------------------------------------------ values

NULL == <<>>

successful_completion == "00000"
foreign_key_violation == "23503"
unique_violation == "23505"
check_violation == "23514"
invalid_text_representation == "22P02"
division_by_zero == "22012"

Abs(n) == IF n < 0 THEN -n ELSE n

\* LET bound == value IN In(bound), with the value computed once however
\* often In refers to it.
Let(value, In(_)) == CHOOSE result \in {In(bound) : bound \in {value}} : TRUE

RECURSIVE GCD(_, _)
GCD(a, b) == IF b = 0 THEN a ELSE GCD(b, a % b)

\* The quotient n / d of two numbers, d > 0, in lowest terms.
Quotient(n, d) ==
    LET g == GCD(Abs(n), d)
    IN  <<n \div g, d \div g>>

\* A nullable REAL column satisfies "column >= 0" when it is NULL (the CHECK
\* is then unknown, which passes) or not negative.
NullOrNonNegative(x) == x = NULL \/ x[1] >= 0

SessionIds == 1 .. MaxSessions

\* ------------------------------------------------ table 1: analysis_sessions

analysis_sessions_check(r) ==
    /\ r.confidence_threshold[1] > 0
    /\ r.confidence_threshold[1] <= r.confidence_threshold[2]

SessionExists(id) == \E s \in analysis_sessions : s.id = id

\* --------------------------------------------------- table 2: analysis_plots

PlotTypes == {"spectrum_overview", "mass_distribution", "uncertainty_analysis", "roi_plot"}

analysis_plots_check(r) == r.plot_type \in PlotTypes

\* INSERT INTO analysis_plots VALUES row
INSERT_analysis_plots(row) ==
    /\ sqlstate' =
           IF ~analysis_plots_check(row) THEN check_violation
           ELSE IF \E r \in analysis_plots : r.id = row.id THEN unique_violation
           ELSE IF ~SessionExists(row.analysis_id) THEN foreign_key_violation
           ELSE successful_completion
    /\ analysis_plots' =
           IF sqlstate' = successful_completion
           THEN analysis_plots \cup {row} ELSE analysis_plots
    /\ UNCHANGED <<analysis_sessions, isotope_detections, mass_estimates, analysis_summary>>

\* UPDATE analysis_plots SET (all columns) = set WHERE id = old.id
UPDATE_analysis_plots(old, set) ==
    /\ old \in analysis_plots
    /\ sqlstate' =
           IF ~analysis_plots_check(set) THEN check_violation
           ELSE IF \E r \in analysis_plots \ {old} : r.id = set.id THEN unique_violation
           ELSE IF ~SessionExists(set.analysis_id) THEN foreign_key_violation
           ELSE successful_completion
    /\ analysis_plots' =
           IF sqlstate' = successful_completion
           THEN (analysis_plots \ {old}) \cup {set} ELSE analysis_plots
    /\ UNCHANGED <<analysis_sessions, isotope_detections, mass_estimates, analysis_summary>>

\* DELETE FROM analysis_plots WHERE id = old.id
DELETE_analysis_plots(old) ==
    /\ old \in analysis_plots
    /\ analysis_plots' = analysis_plots \ {old}
    /\ sqlstate' = successful_completion
    /\ UNCHANGED <<analysis_sessions, isotope_detections, mass_estimates, analysis_summary>>

\* ----------------------------------------------- table 3: isotope_detections

validate_isotope_detection_no_branch(new) ==
    [new EXCEPT !.relative_uncertainty =
        IF new.detected_counts # 0
        THEN Quotient(new.count_uncertainty, Abs(new.detected_counts))
        ELSE <<0, 1>>]

\* A trigger that derives the relative uncertainty only where none is given.
validate_isotope_detection_unless_given(new) ==
    IF new.relative_uncertainty # NULL THEN new
    ELSE [new EXCEPT !.relative_uncertainty =
             IF new.detected_counts > 0
             THEN Quotient(new.count_uncertainty, new.detected_counts)
             ELSE NULL]

validate_isotope_detection(new) ==
    [new EXCEPT !.relative_uncertainty =
        IF new.detected_counts > 0
        THEN Quotient(new.count_uncertainty, new.detected_counts)
        ELSE NULL]

\* The CHECKs of isotope_detections without the one of detected_counts.
isotope_detections_check_but_counts(r) ==
    /\ r.gamma_energy_kev > 0
    /\ r.count_uncertainty >= 0
    /\ NullOrNonNegative(r.relative_uncertainty)

isotope_detections_check(r) ==
    /\ r.gamma_energy_kev > 0
    /\ r.detected_counts >= 0
    /\ r.count_uncertainty >= 0
    /\ NullOrNonNegative(r.relative_uncertainty)

isotope_detections_key(r) ==
    <<r.analysis_id, r.parent_isotope, r.daughter_isotope, r.gamma_energy_kev>>

\* The rows of one INSERT, one after the other: the BEFORE ROW trigger, the
\* CHECK constraints, then the unique index, which already holds the rows
\* inserted earlier by the same statement.
RECURSIVE insert_isotope_detections(_, _)
insert_isotope_detections(tbl, rows) ==
    IF rows = <<>> THEN [sqlstate |-> successful_completion, tbl |-> tbl]
    ELSE LET new == validate_isotope_detection(Head(rows))
         IN  IF ~isotope_detections_check(new)
             THEN [sqlstate |-> check_violation, tbl |-> tbl]
             ELSE IF \E r \in tbl : isotope_detections_key(r) = isotope_detections_key(new)
             THEN [sqlstate |-> unique_violation, tbl |-> tbl]
             ELSE insert_isotope_detections(tbl \cup {new}, Tail(rows))

\* The SQLSTATE of INSERT INTO isotope_detections VALUES rows[1], ..., rows[n]:
\* the first row that raises decides, and the foreign key is checked last.
sqlstate_insert_isotope_detections(rows) ==
    LET res == insert_isotope_detections(isotope_detections, rows)
    IN  IF res.sqlstate # successful_completion THEN res.sqlstate
        ELSE IF \E i \in 1 .. Len(rows) : ~SessionExists(rows[i].analysis_id)
        THEN foreign_key_violation
        ELSE successful_completion

\* A writer that sends the rows one statement each: the rows before the one
\* that raises stay.
INSERT_isotope_detections_row_by_row(rows) ==
    /\ sqlstate' = sqlstate_insert_isotope_detections(rows)
    /\ isotope_detections' =
           IF sqlstate' = foreign_key_violation THEN isotope_detections
           ELSE insert_isotope_detections(isotope_detections, rows).tbl
    /\ UNCHANGED <<analysis_sessions, analysis_plots, mass_estimates, analysis_summary>>

\* INSERT INTO isotope_detections VALUES rows[1], ..., rows[n]
INSERT_isotope_detections(rows) ==
    /\ sqlstate' = sqlstate_insert_isotope_detections(rows)
    /\ isotope_detections' =
           IF sqlstate' = successful_completion
           THEN insert_isotope_detections(isotope_detections, rows).tbl
           ELSE isotope_detections
    /\ UNCHANGED <<analysis_sessions, analysis_plots, mass_estimates, analysis_summary>>

\* UPDATE isotope_detections SET (all columns) = set WHERE (key) = key of old
UPDATE_isotope_detections(old, set) ==
    /\ old \in isotope_detections
    /\ LET new == validate_isotope_detection(set)
       IN  sqlstate' =
               IF ~isotope_detections_check(new) THEN check_violation
               ELSE IF \E r \in isotope_detections \ {old} :
                          isotope_detections_key(r) = isotope_detections_key(new)
               THEN unique_violation
               ELSE IF ~SessionExists(new.analysis_id) THEN foreign_key_violation
               ELSE successful_completion
    /\ isotope_detections' =
           IF sqlstate' = successful_completion
           THEN (isotope_detections \ {old}) \cup {validate_isotope_detection(set)}
           ELSE isotope_detections
    /\ UNCHANGED <<analysis_sessions, analysis_plots, mass_estimates, analysis_summary>>

\* DELETE FROM isotope_detections WHERE (key) = key of old
DELETE_isotope_detections(old) ==
    /\ old \in isotope_detections
    /\ isotope_detections' = isotope_detections \ {old}
    /\ sqlstate' = successful_completion
    /\ UNCHANGED <<analysis_sessions, analysis_plots, mass_estimates, analysis_summary>>

\* --------------------------------------------------- table 4: mass_estimates

validate_mass_estimate_zero(new) ==
    [new EXCEPT !.relative_mass_uncertainty =
        IF new.estimated_mass_g > 0
        THEN Quotient(new.mass_uncertainty_g, new.estimated_mass_g)
        ELSE <<0, 1>>]

validate_mass_estimate(new) ==
    [new EXCEPT !.relative_mass_uncertainty =
        IF new.estimated_mass_g > 0
        THEN Quotient(new.mass_uncertainty_g, new.estimated_mass_g)
        ELSE NULL]

mass_estimates_check(r) ==
    /\ r.estimated_mass_g >= 0
    /\ r.mass_uncertainty_g >= 0
    /\ NullOrNonNegative(r.relative_mass_uncertainty)

mass_estimates_key_with_mass(r) == <<r.analysis_id, r.parent_isotope, r.estimated_mass_g>>

mass_estimates_key(r) == <<r.analysis_id, r.parent_isotope>>

RECURSIVE insert_mass_estimates(_, _)
insert_mass_estimates(tbl, rows) ==
    IF rows = <<>> THEN [sqlstate |-> successful_completion, tbl |-> tbl]
    ELSE LET new == validate_mass_estimate(Head(rows))
         IN  IF ~mass_estimates_check(new)
             THEN [sqlstate |-> check_violation, tbl |-> tbl]
             ELSE IF \E r \in tbl : mass_estimates_key(r) = mass_estimates_key(new)
             THEN [sqlstate |-> unique_violation, tbl |-> tbl]
             ELSE insert_mass_estimates(tbl \cup {new}, Tail(rows))

\* INSERT INTO mass_estimates VALUES rows[1], ..., rows[n]
INSERT_mass_estimates(rows) ==
    /\ LET res == insert_mass_estimates(mass_estimates, rows)
       IN  sqlstate' =
               IF res.sqlstate # successful_completion THEN res.sqlstate
               ELSE IF \E i \in 1 .. Len(rows) : ~SessionExists(rows[i].analysis_id)
               THEN foreign_key_violation
               ELSE successful_completion
    /\ mass_estimates' =
           IF sqlstate' = successful_completion
           THEN insert_mass_estimates(mass_estimates, rows).tbl
           ELSE mass_estimates
    /\ UNCHANGED <<analysis_sessions, analysis_plots, isotope_detections, analysis_summary>>

\* UPDATE mass_estimates SET (all columns) = set WHERE (key) = key of old
UPDATE_mass_estimates(old, set) ==
    /\ old \in mass_estimates
    /\ LET new == validate_mass_estimate(set)
       IN  sqlstate' =
               IF ~mass_estimates_check(new) THEN check_violation
               ELSE IF \E r \in mass_estimates \ {old} :
                          mass_estimates_key(r) = mass_estimates_key(new)
               THEN unique_violation
               ELSE IF ~SessionExists(new.analysis_id) THEN foreign_key_violation
               ELSE successful_completion
    /\ mass_estimates' =
           IF sqlstate' = successful_completion
           THEN (mass_estimates \ {old}) \cup {validate_mass_estimate(set)}
           ELSE mass_estimates
    /\ UNCHANGED <<analysis_sessions, analysis_plots, isotope_detections, analysis_summary>>

\* DELETE FROM mass_estimates WHERE (key) = key of old
DELETE_mass_estimates(old) ==
    /\ old \in mass_estimates
    /\ mass_estimates' = mass_estimates \ {old}
    /\ sqlstate' = successful_completion
    /\ UNCHANGED <<analysis_sessions, analysis_plots, isotope_detections, analysis_summary>>

\* ------------------------------------------------- table 5: analysis_summary

analysis_summary_check(r) ==
    /\ r.total_estimated_mass_g >= 0
    /\ r.total_detections >= 0
    /\ r.unique_parent_isotopes >= 0

analysis_summary_key(r) == <<r.analysis_id>>

\* INSERT INTO analysis_summary VALUES row
INSERT_analysis_summary(row) ==
    /\ sqlstate' =
           IF ~analysis_summary_check(row) THEN check_violation
           ELSE IF \E r \in analysis_summary :
                      analysis_summary_key(r) = analysis_summary_key(row)
           THEN unique_violation
           ELSE IF ~SessionExists(row.analysis_id) THEN foreign_key_violation
           ELSE successful_completion
    /\ analysis_summary' =
           IF sqlstate' = successful_completion
           THEN analysis_summary \cup {row} ELSE analysis_summary
    /\ UNCHANGED <<analysis_sessions, analysis_plots, isotope_detections, mass_estimates>>

\* UPDATE analysis_summary SET (all columns) = set WHERE analysis_id = old's
UPDATE_analysis_summary(old, set) ==
    /\ old \in analysis_summary
    /\ sqlstate' =
           IF ~analysis_summary_check(set) THEN check_violation
           ELSE IF \E r \in analysis_summary \ {old} :
                      analysis_summary_key(r) = analysis_summary_key(set)
           THEN unique_violation
           ELSE IF ~SessionExists(set.analysis_id) THEN foreign_key_violation
           ELSE successful_completion
    /\ analysis_summary' =
           IF sqlstate' = successful_completion
           THEN (analysis_summary \ {old}) \cup {set} ELSE analysis_summary
    /\ UNCHANGED <<analysis_sessions, analysis_plots, isotope_detections, mass_estimates>>

\* DELETE FROM analysis_summary WHERE analysis_id = old's
DELETE_analysis_summary(old) ==
    /\ old \in analysis_summary
    /\ analysis_summary' = analysis_summary \ {old}
    /\ sqlstate' = successful_completion
    /\ UNCHANGED <<analysis_sessions, analysis_plots, isotope_detections, mass_estimates>>

\* ------------------------------------------------ table 1: the statements

\* INSERT INTO analysis_sessions VALUES row
INSERT_analysis_sessions(row) ==
    /\ sqlstate' =
           IF ~analysis_sessions_check(row) THEN check_violation
           ELSE IF SessionExists(row.id) THEN unique_violation
           ELSE successful_completion
    /\ analysis_sessions' =
           IF sqlstate' = successful_completion
           THEN analysis_sessions \cup {row} ELSE analysis_sessions
    /\ UNCHANGED <<analysis_plots, isotope_detections, mass_estimates, analysis_summary>>

\* A foreign key with no action on delete of the session: the rows stay.
on_delete_no_action(tbl, id) == tbl

\* A delete that empties the child table, whichever session goes.
on_delete_truncate(tbl, id) == {}

\* The rows of a child table that ON DELETE CASCADE leaves when session id goes.
on_delete_cascade(tbl, id) == {r \in tbl : r.analysis_id # id}

\* DELETE FROM analysis_sessions WHERE id = id
DELETE_analysis_sessions(id) ==
    /\ SessionExists(id)
    /\ analysis_sessions' = {s \in analysis_sessions : s.id # id}
    /\ analysis_plots' = on_delete_cascade(analysis_plots, id)
    /\ isotope_detections' = on_delete_cascade(isotope_detections, id)
    /\ mass_estimates' = on_delete_cascade(mass_estimates, id)
    /\ analysis_summary' = on_delete_cascade(analysis_summary, id)
    /\ sqlstate' = successful_completion

\* ------------------------------------------------------------ initial state

\* The calls of fetchAnalysisDetails in flight or ended, one per slot.
CallSlots == 1 .. MaxCalls

\* A call of fetchAnalysisDetails: its argument, the query it awaits or how
\* it ended, and its local constants detectionsData, massData and plotsData.
Call(id, pc, detectionsData, massData, plotsData) ==
    [analysisId |-> id, pc |-> pc, detectionsData |-> detectionsData,
     massData |-> massData, plotsData |-> plotsData]

NoCall == Call(NULL, "none", <<>>, <<>>, <<>>)

\* The calls of fetchAnalyses of src/app/page.tsx in flight, one per slot.
FetchSlots == 1 .. MaxFetches

\* The stats of useState and of the catch block of fetchAnalyses; avgPeaks is
\* <<typeof, integer part, digit after the point>>, here the number 0.
NoStats ==
    [totalAnalyses |-> 0, completedAnalyses |-> 0, totalIsotopes |-> 0,
     uniqueIsotopes |-> 0, isotopeFrequency |-> [isotope \in {} |-> 0],
     avgPeaks |-> <<"number", 0, 0>>, recentAnalyses |-> <<>>]

\* IsotopeDashboard after its first render and its effect: the state of
\* useState, no timer, and the call of fetchAnalyses the effect made, which
\* awaits its query.
useState ==
    [analyses |-> <<>>, stats |-> NoStats, loading |-> TRUE, refreshInterval |-> NULL,
     mounted |-> TRUE, timers |-> {},
     fetchAnalyses |-> [slot \in FetchSlots |->
                           IF slot = 1 THEN "isotope_analyses" ELSE "none"]]

\* The database is empty and both components are mounted: the first effect
\* of AnalysisDashboard has called fetchLatestAnalyses, which awaits its query.
Init ==
    /\ analysis_sessions = {}
    /\ analysis_plots = {}
    /\ isotope_detections = {}
    /\ mass_estimates = {}
    /\ analysis_summary = {}
    /\ sqlstate = successful_completion
    /\ request = NULL
    /\ isotope_analyses = {}
    /\ latestAnalyses = <<>>
    /\ selectedAnalysis = NULL
    /\ detections = <<>>
    /\ massEstimates = <<>>
    /\ plots = <<>>
    /\ loading = TRUE
    /\ mounted = TRUE
    /\ fetchLatestAnalyses = "latest_analyses"
    /\ fetchAnalysisDetails = [slot \in CallSlots |-> NoCall]
    /\ seen = [slot \in CallSlots |-> {}]
    /\ IsotopeDashboard = useState

\* --------------------------------------- the detections of a session (C1, C7)

SampleFilenames == <<"sample1.csv", "sample2.csv", "sample3.csv", "sample4.csv">>

\* The session a writer creates: its file is named after it, its timestamp is
\* the order of creation.
Session(id, threshold) ==
    [id |-> id, sample_filename |-> SampleFilenames[id],
     confidence_threshold |-> threshold, analysis_timestamp |-> id]

Detection(id, parent, energy, counts, uncertainty, relative) ==
    [analysis_id |-> id, parent_isotope |-> parent, daughter_isotope |-> "Ba-137m",
     gamma_energy_kev |-> energy, detected_counts |-> counts,
     count_uncertainty |-> uncertainty, relative_uncertainty |-> relative]

\* What a writer sends for one peak: two peaks that pass (the first with a
\* relative uncertainty of its own, the second with no counts), one with
\* negative counts and one with no energy.
DetectionInputs(id) ==
    {Detection(id, "Cs-137", 662, 2, 1, <<7, 1>>),
     Detection(id, "Cs-137", 1173, 0, 1, <<0, 1>>),
     Detection(id, "Cs-137", 662, -1, 1, NULL),
     Detection(id, "Cs-137", 0, 2, 1, NULL)}

\* What an UPDATE sets: counts, their uncertainty and the relative uncertainty.
DetectionUpdates(old) ==
    {[old EXCEPT !.detected_counts = c, !.count_uncertainty = u,
                 !.relative_uncertainty = rel] :
        c \in {-1, 0, 2}, u \in {0, 1}, rel \in {<<7, 1>>}}

Batches(S) == UNION {[1 .. n -> S] : n \in 1 .. MaxBatch}

NextDetections ==
    \/ \E id \in SessionIds :
           INSERT_analysis_sessions(Session(id, <<1, 1>>)) /\ UNCHANGED unlogged
    \/ \E id \in SessionIds : DELETE_analysis_sessions(id) /\ UNCHANGED unlogged
    \/ \E id \in SessionIds : \E rows \in Batches(DetectionInputs(id)) :
           INSERT_isotope_detections(rows) /\ UNCHANGED unlogged
    \/ \E old \in isotope_detections : \E set \in DetectionUpdates(old) :
           UPDATE_isotope_detections(old, set) /\ UNCHANGED unlogged
    \/ \E old \in isotope_detections :
           DELETE_isotope_detections(old) /\ UNCHANGED unlogged

SpecDetections == Init /\ [][NextDetections]_vars

\* C1: every stored detection has relative_uncertainty = count_uncertainty /
\* detected_counts when detected_counts > 0 and NULL (not 0) when
\* detected_counts = 0, whatever relative_uncertainty the writer sent.
C1_RelativeUncertaintyDerived ==
    \A d \in isotope_detections :
        IF d.detected_counts > 0
        THEN /\ d.relative_uncertainty # NULL
             /\ d.relative_uncertainty[2] > 0
             /\ d.relative_uncertainty[1] * d.detected_counts
                    = d.count_uncertainty * d.relative_uncertainty[2]
        ELSE d.relative_uncertainty = NULL

\* Both cases are stored, the first after an UPDATE of a row whose writer sent 7.
C1_Witness ==
    /\ \E d \in isotope_detections :
           d.detected_counts = 2 /\ d.count_uncertainty = 1
               /\ d.relative_uncertainty = <<1, 2>>
    /\ \E d \in isotope_detections :
           d.detected_counts = 0 /\ d.relative_uncertainty = NULL
               /\ d.gamma_energy_kev = 662

\* ------------------------------- appending a batch of detections (C7)

NextAppend ==
    \/ \E id \in SessionIds :
           INSERT_analysis_sessions(Session(id, <<1, 1>>)) /\ Logged(NULL)
    \/ \E id \in SessionIds : DELETE_analysis_sessions(id) /\ Logged(NULL)
    \/ \E id \in SessionIds : \E rows \in Batches(DetectionInputs(id)) :
           INSERT_isotope_detections(rows) /\ Logged(rows)
    \/ \E old \in isotope_detections :
           DELETE_isotope_detections(old) /\ Logged(NULL)

SpecAppend == Init /\ [][NextAppend]_vars

Keys(tbl) == {isotope_detections_key(r) : r \in tbl}

\* A batch with a record of negative counts or of non-positive energy, or with
\* a record whose key is stored already or is that of another of its records.
BadBatch(rows, stored) ==
    \E i \in 1 .. Len(rows) :
        \/ rows[i].detected_counts < 0
        \/ rows[i].gamma_energy_kev <= 0
        \/ isotope_detections_key(rows[i]) \in Keys(stored)
        \/ \E j \in 1 .. Len(rows) :
               j # i /\ isotope_detections_key(rows[j]) = isotope_detections_key(rows[i])

\* C7: a batch of detections with one bad record is rejected as a whole, and
\* the stored detections are those from before the call.
C7_BatchAllOrNothing ==
    [][(request' # NULL /\ BadBatch(request', isotope_detections))
          => (sqlstate' # successful_completion
                /\ isotope_detections' = isotope_detections)]_vars

\* A batch whose first record passes and whose second does not was rejected,
\* and the first record is not stored.
C7_Witness ==
    /\ request # NULL
    /\ Len(request) = 2
    /\ isotope_detections_check(validate_isotope_detection(request[1]))
    /\ ~isotope_detections_check(validate_isotope_detection(request[2]))
    /\ sqlstate = check_violation
    /\ isotope_detections_key(request[1]) \notin Keys(isotope_detections)
    /\ SessionExists(request[1].analysis_id)

\* ------------------------------ the mass estimates of a session (C2, C6)

MassEstimate(id, parent, mass, uncertainty, relative) ==
    [analysis_id |-> id, parent_isotope |-> parent, estimated_mass_g |-> mass,
     mass_uncertainty_g |-> uncertainty, relative_mass_uncertainty |-> relative]

\* Isotope names, in the order of their text.
Isotopes == <<"Co-60", "Cs-137">>

IsotopeNames == {Isotopes[i] : i \in 1 .. Len(Isotopes)}

\* The position of a text in the ascending order of the texts listed.
TextOrder(texts, text) == CHOOSE i \in 1 .. Len(texts) : texts[i] = text

MassInputs(id) ==
    {MassEstimate(id, p, m, 1, <<7, 1>>) : p \in IsotopeNames, m \in {-1, 0, 2}}

MassUpdates(old) ==
    {[old EXCEPT !.estimated_mass_g = m, !.relative_mass_uncertainty = <<7, 1>>] :
        m \in {-1, 0, 2}}

NextMass ==
    \/ \E id \in SessionIds :
           INSERT_analysis_sessions(Session(id, <<1, 1>>)) /\ Logged(NULL)
    \/ \E id \in SessionIds : DELETE_analysis_sessions(id) /\ Logged(NULL)
    \/ \E id \in SessionIds : \E row \in MassInputs(id) :
           INSERT_mass_estimates(<<row>>) /\ Logged(<<row>>)
    \/ \E old \in mass_estimates : \E set \in MassUpdates(old) :
           UPDATE_mass_estimates(old, set) /\ Logged(NULL)
    \/ \E old \in mass_estimates : DELETE_mass_estimates(old) /\ Logged(NULL)

SpecMass == Init /\ [][NextMass]_vars

\* C2: every stored mass estimate has relative_mass_uncertainty =
\* mass_uncertainty_g / estimated_mass_g when estimated_mass_g > 0 and NULL
\* (never 0) when estimated_mass_g = 0, and a write of a zero mass raises
\* nothing.
C2_RelativeMassUncertaintyDerived ==
    /\ \A m \in mass_estimates :
           IF m.estimated_mass_g > 0
           THEN /\ m.relative_mass_uncertainty # NULL
                /\ m.relative_mass_uncertainty[2] > 0
                /\ m.relative_mass_uncertainty[1] * m.estimated_mass_g
                       = m.mass_uncertainty_g * m.relative_mass_uncertainty[2]
           ELSE m.relative_mass_uncertainty = NULL
    /\ (request # NULL /\ request[1].estimated_mass_g = 0
            /\ SessionExists(request[1].analysis_id)
            /\ sqlstate # unique_violation)
           => (sqlstate = successful_completion
                 /\ \E m \in mass_estimates :
                        /\ mass_estimates_key(m) = mass_estimates_key(request[1])
                        /\ m.estimated_mass_g = 0)

\* An estimate of mass 0 was inserted and is stored with NULL, beside one of
\* mass 2 and uncertainty 1 stored with 1/2.
C2_Witness ==
    /\ request # NULL
    /\ request[1].estimated_mass_g = 0
    /\ sqlstate = successful_completion
    /\ \E m \in mass_estimates :
           m.estimated_mass_g = 0 /\ m.relative_mass_uncertainty = NULL
    /\ \E m \in mass_estimates :
           m.estimated_mass_g = 2 /\ m.relative_mass_uncertainty = <<1, 2>>

SameSessionAndIsotope(a, b) ==
    a.analysis_id = b.analysis_id /\ a.parent_isotope = b.parent_isotope

\* C6: an INSERT of a mass estimate for a (session, parent isotope) that has
\* one raises and changes no table, and no (session, parent isotope) has two.
C6_OneEstimatePerIsotope ==
    [][/\ (request' # NULL
             /\ \E m \in mass_estimates : SameSessionAndIsotope(m, request'[1]))
          => (sqlstate' # successful_completion /\ tables' = tables)
       /\ \A m1, m2 \in mass_estimates' :
              SameSessionAndIsotope(m1, m2) => m1 = m2]_vars

\* The second estimate of an isotope of a session, of another mass than the
\* stored one, was refused.
C6_Witness ==
    /\ request # NULL
    /\ sqlstate = unique_violation
    /\ \E m \in mass_estimates :
           /\ SameSessionAndIsotope(m, request[1])
           /\ m.estimated_mass_g # request[1].estimated_mass_g

\* ------------------------------------- the summary of a session (C3, C4)

Summary(id, total, count, isotopes, dominant) ==
    [analysis_id |-> id, total_estimated_mass_g |-> total,
     total_detections |-> count, unique_parent_isotopes |-> isotopes,
     dominant_isotope |-> dominant]

SummaryInputs(id) == {Summary(id, t, 0, 0, NULL) : t \in {-1, 0, 2}}

SummaryUpdates(old) == {[old EXCEPT !.total_estimated_mass_g = t] : t \in {0, 2, 4}}

NextSummary ==
    \/ \E id \in SessionIds :
           INSERT_analysis_sessions(Session(id, <<1, 1>>)) /\ UNCHANGED unlogged
    \/ \E id \in SessionIds : DELETE_analysis_sessions(id) /\ UNCHANGED unlogged
    \/ \E id \in SessionIds : \E p \in IsotopeNames :
           INSERT_mass_estimates(<<MassEstimate(id, p, 2, 1, NULL)>>) /\ UNCHANGED unlogged
    \/ \E old \in mass_estimates :
           UPDATE_mass_estimates(old, [old EXCEPT !.estimated_mass_g = 0])
               /\ UNCHANGED unlogged
    \/ \E old \in mass_estimates : DELETE_mass_estimates(old) /\ UNCHANGED unlogged
    \/ \E id \in SessionIds : \E row \in SummaryInputs(id) :
           INSERT_analysis_summary(row) /\ UNCHANGED unlogged
    \/ \E old \in analysis_summary : \E set \in SummaryUpdates(old) :
           UPDATE_analysis_summary(old, set) /\ UNCHANGED unlogged
    \/ \E old \in analysis_summary : DELETE_analysis_summary(old) /\ UNCHANGED unlogged

SpecSummary == Init /\ [][NextSummary]_vars

RECURSIVE SumOfMasses(_)
SumOfMasses(rows) ==
    IF rows = {} THEN 0
    ELSE LET r == CHOOSE r \in rows : TRUE
         IN  r.estimated_mass_g + SumOfMasses(rows \ {r})

SummariesOf(id) == {sum \in analysis_summary : sum.analysis_id = id}

\* C3: the stored total_estimated_mass_g of a session's summary is the sum of
\* estimated_mass_g over the session's mass estimates, 0 if it has none.
C3_SummaryTotalIsSum ==
    \A sum \in analysis_summary :
        sum.total_estimated_mass_g =
            SumOfMasses({m \in mass_estimates : m.analysis_id = sum.analysis_id})

\* C4: in every reachable state each existing session has exactly one summary
\* record, never zero and never more than one.  The store keeps the summary
\* in a table of its own that a writer fills with a separate statement, so a
\* session stands without a summary after its INSERT and after a DELETE of
\* its summary.
C4_ExactlyOneSummary ==
    \A s \in analysis_sessions : Cardinality(SummariesOf(s.id)) = 1

\* ------------------------------------------ the mass_comparison view (C9)

\* FROM analysis_sessions s JOIN mass_estimates m ON s.id = m.analysis_id
mass_comparison_join ==
    {j \in [s : analysis_sessions, m : mass_estimates] : j.s.id = j.m.analysis_id}

\* ORDER BY m.estimated_mass_g DESC: rows of equal mass come in any order.
RECURSIVE order_by_estimated_mass_desc(_)
order_by_estimated_mass_desc(rows) ==
    IF rows = {} THEN <<>>
    ELSE LET first == CHOOSE j \in rows :
                          \A k \in rows : k.m.estimated_mass_g <= j.m.estimated_mass_g
         IN  <<first>> \o order_by_estimated_mass_desc(rows \ {first})

\* DENSE_RANK(): the number of distinct masses down to the row's.
RECURSIVE dense_rank(_, _)
dense_rank(ordered, i) ==
    IF i = 1 THEN 1
    ELSE IF ordered[i].m.estimated_mass_g = ordered[i - 1].m.estimated_mass_g
    THEN dense_rank(ordered, i - 1)
    ELSE dense_rank(ordered, i - 1) + 1

\* RANK(): the row number of the first row of the row's peers.
RECURSIVE rank(_, _)
rank(ordered, i) ==
    IF i = 1 THEN 1
    ELSE IF ordered[i].m.estimated_mass_g = ordered[i - 1].m.estimated_mass_g
    THEN rank(ordered, i - 1)
    ELSE i

\* The rows of one window, PARTITION BY m.parent_isotope, in its order.
mass_comparison_partition(parent) ==
    LET ordered == order_by_estimated_mass_desc(
                       {j \in mass_comparison_join : j.m.parent_isotope = parent})
    IN  [i \in 1 .. Len(ordered) |->
            [sample_filename |-> ordered[i].s.sample_filename,
             analysis_timestamp |-> ordered[i].s.analysis_timestamp,
             parent_isotope |-> ordered[i].m.parent_isotope,
             estimated_mass_g |-> ordered[i].m.estimated_mass_g,
             relative_mass_uncertainty |-> ordered[i].m.relative_mass_uncertainty,
             mass_rank |-> rank(ordered, i)]]

\* ORDER BY m.parent_isotope, m.estimated_mass_g DESC
RECURSIVE mass_comparison_from(_)
mass_comparison_from(i) ==
    IF i > Len(Isotopes) THEN <<>>
    ELSE mass_comparison_partition(Isotopes[i]) \o mass_comparison_from(i + 1)

mass_comparison == mass_comparison_from(1)

RankedSessionIds == 1 .. MaxRanked

NextRank ==
    \/ \E id \in RankedSessionIds :
           INSERT_analysis_sessions(Session(id, <<1, 1>>)) /\ UNCHANGED unlogged
    \/ \E id \in RankedSessionIds : DELETE_analysis_sessions(id) /\ UNCHANGED unlogged
    \/ \E id \in RankedSessionIds : \E p \in IsotopeNames : \E mass \in {3, 5} :
           INSERT_mass_estimates(<<MassEstimate(id, p, mass, 1, NULL)>>)
               /\ UNCHANGED unlogged
    \/ \E old \in mass_estimates : \E mass \in {3, 5} :
           UPDATE_mass_estimates(old, [old EXCEPT !.estimated_mass_g = mass])
               /\ UNCHANGED unlogged
    \/ \E old \in mass_estimates : DELETE_mass_estimates(old) /\ UNCHANGED unlogged

SpecRank == Init /\ [][NextRank]_vars

RowsOf(view, parent) == {i \in 1 .. Len(view) : view[i].parent_isotope = parent}

\* C9: per isotope, mass_rank is the standard competition rank on descending
\* estimated mass: the view has a row per estimate, the isotope's rows come in
\* non-increasing mass with the first of rank 1, equal masses have equal rank,
\* and a rank is 1 plus the number of estimates of that isotope of a strictly
\* greater mass, whatever the estimates of another isotope.
C9_CompetitionRanking ==
    LET view == mass_comparison
    IN  /\ Len(view) = Cardinality(mass_estimates)
        /\ \A p \in IsotopeNames :
            /\ Cardinality(RowsOf(view, p)) =
                   Cardinality({m \in mass_estimates : m.parent_isotope = p})
            /\ \A i \in RowsOf(view, p) :
                /\ view[i].mass_rank >= 1
                /\ (\A k \in RowsOf(view, p) : i <= k) => view[i].mass_rank = 1
                /\ view[i].mass_rank =
                       1 + Cardinality({m \in mass_estimates :
                                           /\ m.parent_isotope = p
                                           /\ m.estimated_mass_g > view[i].estimated_mass_g})
                /\ \A k \in RowsOf(view, p) :
                    /\ i < k => view[i].estimated_mass_g >= view[k].estimated_mass_g
                    /\ i < k => view[i].mass_rank <= view[k].mass_rank
                    /\ view[i].estimated_mass_g = view[k].estimated_mass_g
                           => view[i].mass_rank = view[k].mass_rank

\* Masses 5, 5, 3 of one isotope have the ranks 1, 1, 3, beside an estimate of
\* the other isotope.
C9_Witness ==
    LET view == mass_comparison
    IN  /\ Len(view) = 4
        /\ view[1].parent_isotope = "Co-60"
        /\ <<view[2].estimated_mass_g, view[3].estimated_mass_g, view[4].estimated_mass_g>>
               = <<5, 5, 3>>
        /\ <<view[2].mass_rank, view[3].mass_rank, view[4].mass_rank>> = <<1, 1, 3>>
        /\ \A i \in 2 .. 4 : view[i].parent_isotope = "Cs-137"

\* ------------------------------------------------ the other views (C5)

\* The same FROM with JOIN in the place of both LEFT JOINs.
latest_analyses_inner_join ==
    {j \in [s : analysis_sessions,
            sum : {<<x>> : x \in analysis_summary},
            p : {<<x>> : x \in analysis_plots}] :
        j.s.id = j.sum[1].analysis_id /\ j.s.id = j.p[1].analysis_id}

\* FROM analysis_sessions s
\* LEFT JOIN analysis_summary sum ON s.id = sum.analysis_id
\* LEFT JOIN analysis_plots p ON s.id = p.analysis_id
latest_analyses_join ==
    LET summaries(s) == {x \in analysis_summary : s.id = x.analysis_id}
        plots_of(s) == {x \in analysis_plots : s.id = x.analysis_id}
    IN  {j \in [s : analysis_sessions,
                sum : {<<x>> : x \in analysis_summary} \cup {NULL},
                p : {<<x>> : x \in analysis_plots} \cup {NULL}] :
            /\ IF summaries(j.s) = {} THEN j.sum = NULL
               ELSE j.sum # NULL /\ j.sum[1] \in summaries(j.s)
            /\ IF plots_of(j.s) = {} THEN j.p = NULL
               ELSE j.p # NULL /\ j.p[1] \in plots_of(j.s)}

\* GROUP BY the columns of s and of sum that the view selects.
latest_analyses_groups ==
    {[id |-> j.s.id,
      sample_filename |-> j.s.sample_filename,
      analysis_timestamp |-> j.s.analysis_timestamp,
      confidence_threshold |-> j.s.confidence_threshold,
      total_estimated_mass_g |->
          IF j.sum = NULL THEN NULL ELSE <<j.sum[1].total_estimated_mass_g>>,
      total_detections |-> IF j.sum = NULL THEN NULL ELSE <<j.sum[1].total_detections>>,
      unique_parent_isotopes |->
          IF j.sum = NULL THEN NULL ELSE <<j.sum[1].unique_parent_isotopes>>,
      dominant_isotope |-> IF j.sum = NULL THEN NULL ELSE j.sum[1].dominant_isotope,
      members |-> {k \in latest_analyses_join : k.s = j.s /\ k.sum = j.sum}] :
        j \in latest_analyses_join}

\* ORDER BY s.analysis_timestamp DESC: groups of one timestamp in any order.
RECURSIVE order_by_analysis_timestamp_desc(_)
order_by_analysis_timestamp_desc(groups) ==
    IF groups = {} THEN <<>>
    ELSE LET first == CHOOSE s \in groups :
                          \A t \in groups : t.analysis_timestamp <= s.analysis_timestamp
         IN  <<first>> \o order_by_analysis_timestamp_desc(groups \ {first})

\* The row of one group: its columns, COUNT(p.id) and
\* COUNT(CASE WHEN p.plot_type = 'roi_plot' THEN 1 END).
latest_analyses_row(g) ==
    [id |-> g.id,
     sample_filename |-> g.sample_filename,
     analysis_timestamp |-> g.analysis_timestamp,
     confidence_threshold |-> g.confidence_threshold,
     total_estimated_mass_g |-> g.total_estimated_mass_g,
     total_detections |-> g.total_detections,
     unique_parent_isotopes |-> g.unique_parent_isotopes,
     dominant_isotope |-> g.dominant_isotope,
     total_plots |-> Cardinality({k \in g.members : k.p # NULL}),
     roi_plots_count |->
         Cardinality({k \in g.members : k.p # NULL /\ k.p[1].plot_type = "roi_plot"})]

latest_analyses ==
    LET ordered == order_by_analysis_timestamp_desc(latest_analyses_groups)
    IN  [i \in 1 .. Len(ordered) |-> latest_analyses_row(ordered[i])]

\* The same FROM with JOIN mass_estimates in the place of LEFT JOIN.
detection_results_inner_join ==
    {j \in [s : analysis_sessions, d : isotope_detections,
            m : {<<m>> : m \in mass_estimates}] :
        /\ j.s.id = j.d.analysis_id
        /\ j.s.id = j.m[1].analysis_id
        /\ j.d.parent_isotope = j.m[1].parent_isotope}

\* FROM analysis_sessions s JOIN isotope_detections d ON s.id = d.analysis_id
\* LEFT JOIN mass_estimates m ON s.id = m.analysis_id
\*                         AND d.parent_isotope = m.parent_isotope
detection_results_join ==
    LET matches(s, d) == {m \in mass_estimates :
                             s.id = m.analysis_id /\ d.parent_isotope = m.parent_isotope}
    IN  {j \in [s : analysis_sessions, d : isotope_detections,
                m : {<<m>> : m \in mass_estimates} \cup {NULL}] :
            /\ j.s.id = j.d.analysis_id
            /\ IF matches(j.s, j.d) = {} THEN j.m = NULL
               ELSE j.m # NULL /\ j.m[1] \in matches(j.s, j.d)}

\* The rows of detection_results, each under the rows it is joined from.
detection_results_rows ==
    [j \in detection_results_join |->
        [sample_filename |-> j.s.sample_filename,
         analysis_timestamp |-> j.s.analysis_timestamp,
         parent_isotope |-> j.d.parent_isotope,
         daughter_isotope |-> j.d.daughter_isotope,
         gamma_energy_kev |-> j.d.gamma_energy_kev,
         detected_counts |-> j.d.detected_counts,
         count_uncertainty |-> j.d.count_uncertainty,
         relative_uncertainty |-> j.d.relative_uncertainty,
         estimated_mass_g |-> IF j.m = NULL THEN NULL ELSE <<j.m[1].estimated_mass_g>>,
         mass_uncertainty_g |-> IF j.m = NULL THEN NULL ELSE <<j.m[1].mass_uncertainty_g>>,
         relative_mass_uncertainty |->
             IF j.m = NULL THEN NULL ELSE j.m[1].relative_mass_uncertainty]]

\* ORDER BY s.analysis_timestamp DESC, d.parent_isotope, d.gamma_energy_kev:
\* the joined rows from the first to the last; rows the three keys do not
\* tell apart come in the order the database happens to return them.
RECURSIVE order_by_detection_results(_)
order_by_detection_results(rows) ==
    IF rows = {} THEN <<>>
    ELSE LET parent(j) == TextOrder(Isotopes, j.d.parent_isotope)
             before(a, b) ==
                 \/ a.s.analysis_timestamp > b.s.analysis_timestamp
                 \/ /\ a.s.analysis_timestamp = b.s.analysis_timestamp
                    /\ parent(a) < parent(b)
                 \/ /\ a.s.analysis_timestamp = b.s.analysis_timestamp
                    /\ parent(a) = parent(b)
                    /\ a.d.gamma_energy_kev < b.d.gamma_energy_kev
             first == CHOOSE j \in rows : \A k \in rows : ~before(k, j)
         IN  <<first>> \o order_by_detection_results(rows \ {first})

\* SELECT * FROM detection_results: the rows of the view in its order.
detection_results ==
    Let(<<order_by_detection_results(detection_results_join), detection_results_rows>>,
        LAMBDA view : [i \in 1 .. Len(view[1]) |-> view[2][view[1][i]]])

\* (p.plot_metadata->>'gamma_energy_kev')::REAL raises
\* invalid_text_representation for a text that spells no number; the cast of
\* a NULL is NULL and that of the text of a number is the number.
real_cast_raises(value) == value # NULL /\ Len(value) # 1

\* FROM analysis_sessions s JOIN analysis_plots p ON s.id = p.analysis_id
plot_catalog_join ==
    {j \in [s : analysis_sessions, p : analysis_plots] : j.s.id = j.p.analysis_id}

\* The SQLSTATE of SELECT * FROM plot_catalog: the CASE of gamma_energy_kev
\* casts the energy text of every joined roi_plot, and of no other plot; one
\* cast that raises aborts the query.
plot_catalog_sqlstate ==
    IF \E j \in plot_catalog_join :
           /\ j.p.plot_type = "roi_plot"
           /\ real_cast_raises(j.p.plot_metadata.gamma_energy_kev)
    THEN invalid_text_representation
    ELSE successful_completion

\* The rows of plot_catalog, each under the rows it is joined from, and no
\* row when the query raised.  The cast of the text of an energy the
\* specifications store is that energy, a whole number below 2^24.
plot_catalog_rows ==
    [j \in IF plot_catalog_sqlstate = successful_completion THEN plot_catalog_join ELSE {} |->
        [sample_filename |-> j.s.sample_filename,
         analysis_timestamp |-> j.s.analysis_timestamp,
         plot_type |-> j.p.plot_type,
         plot_title |-> j.p.plot_title,
         plot_metadata |-> j.p.plot_metadata,
         plot_created_at |-> j.p.created_at,
         parent_isotope |->
             IF j.p.plot_type = "roi_plot" THEN j.p.plot_metadata.parent_isotope ELSE NULL,
         gamma_energy_kev |->
             IF j.p.plot_type = "roi_plot" THEN j.p.plot_metadata.gamma_energy_kev ELSE NULL,
         image_size_bytes |-> Len(j.p.plot_data_base64)]]

\* --------------------------------------------- the whole record store (C5)

\* plot_metadata: a JSON object, each key NULL where the object lacks it,
\* <<n>> where it holds the number n and JSON_string(text) where it holds a
\* string that spells no number.
JSON_string(text) == <<"string", text>>

PlotMetadata(parent, energy) == [parent_isotope |-> parent, gamma_energy_kev |-> energy]

\* A plot as a writer stores it; created_at is the instant the writer gives,
\* the same for every plot.
Plot(id, session, type, metadata) ==
    [id |-> id, analysis_id |-> session, plot_type |-> type, plot_title |-> "plot",
     plot_data_base64 |-> <<"i", "V", "B", "O">>, plot_metadata |-> metadata,
     created_at |-> 1]

PlotIds == 1 .. MaxPlots

ChildRows == analysis_plots \cup isotope_detections \cup mass_estimates \cup analysis_summary

\* A DELETE of a session is logged as the id it names and the number of
\* child rows that session has when the statement begins.
Next ==
    \/ \E id \in SessionIds :
           INSERT_analysis_sessions(Session(id, <<1, 1>>)) /\ Logged(NULL)
    \/ \E id \in SessionIds :
           DELETE_analysis_sessions(id)
               /\ Logged(<<id, Cardinality({r \in ChildRows : r.analysis_id = id})>>)
    \/ \E id \in SessionIds :
           INSERT_isotope_detections(<<Detection(id, "Cs-137", 662, 2, 1, NULL)>>)
               /\ Logged(NULL)
    \/ \E old \in isotope_detections : \E id \in SessionIds :
           UPDATE_isotope_detections(old, [old EXCEPT !.analysis_id = id])
               /\ Logged(NULL)
    \/ \E old \in isotope_detections : DELETE_isotope_detections(old) /\ Logged(NULL)
    \/ \E id \in SessionIds :
           INSERT_mass_estimates(<<MassEstimate(id, "Cs-137", 2, 1, NULL)>>)
               /\ Logged(NULL)
    \/ \E old \in mass_estimates : \E id \in SessionIds :
           UPDATE_mass_estimates(old, [old EXCEPT !.analysis_id = id]) /\ Logged(NULL)
    \/ \E old \in mass_estimates : DELETE_mass_estimates(old) /\ Logged(NULL)
    \/ \E id \in SessionIds :
           INSERT_analysis_summary(Summary(id, 2, 1, 1, <<"Cs-137">>)) /\ Logged(NULL)
    \/ \E old \in analysis_summary : \E id \in SessionIds :
           UPDATE_analysis_summary(old, [old EXCEPT !.analysis_id = id])
               /\ Logged(NULL)
    \/ \E old \in analysis_summary : DELETE_analysis_summary(old) /\ Logged(NULL)
    \/ \E pid \in PlotIds : \E id \in SessionIds :
           INSERT_analysis_plots(Plot(pid, id, "roi_plot", PlotMetadata(<<"Cs-137">>, <<662>>)))
               /\ Logged(NULL)
    \/ \E old \in analysis_plots : \E id \in SessionIds :
           UPDATE_analysis_plots(old, [old EXCEPT !.analysis_id = id]) /\ Logged(NULL)
    \/ \E old \in analysis_plots : DELETE_analysis_plots(old) /\ Logged(NULL)

Spec == Init /\ [][Next]_vars

\* The number of rows the four views show of the session of this id and
\* sample file.
ViewRowsOf(id) ==
    Cardinality({i \in 1 .. Len(latest_analyses) : latest_analyses[i].id = id})
        + Cardinality({i \in 1 .. Len(mass_comparison) :
                          mass_comparison[i].sample_filename = SampleFilenames[id]})
        + Let(detection_results, LAMBDA view :
              Cardinality({i \in 1 .. Len(view) :
                              view[i].sample_filename = SampleFilenames[id]}))
        + Cardinality({j \in DOMAIN plot_catalog_rows :
                          plot_catalog_rows[j].sample_filename = SampleFilenames[id]})

\* C5: every child record refers to an existing session, and once session S
\* is deleted no detection, mass estimate, plot or summary refers to S and no
\* view has a row of S.
C5_DeleteCascades ==
    /\ \A r \in ChildRows : SessionExists(r.analysis_id)
    /\ request # NULL =>
           /\ \A r \in ChildRows : r.analysis_id # request[1]
           /\ ViewRowsOf(request[1]) = 0

\* Session 1, which had four child rows, was deleted while session 2 keeps
\* a row in each child table and in each view.
C5_Witness ==
    /\ request = <<1, 4>>
    /\ \E r \in analysis_plots : r.analysis_id = 2
    /\ \E r \in isotope_detections : r.analysis_id = 2
    /\ \E r \in mass_estimates : r.analysis_id = 2
    /\ \E r \in analysis_summary : r.analysis_id = 2
    /\ ViewRowsOf(2) = 4

\* ------------------------------ AnalysisDashboard (src/unnamed/part_001)

store == <<tables, sqlstate, request>>

\* .limit(20)
LatestLimit == 20

PlotTypesAscending ==
    <<"mass_distribution", "roi_plot", "spectrum_overview", "uncertainty_analysis">>

\* The rows in an order that agrees with InOrder; rows that InOrder does not
\* tell apart come in the order the database happens to return them.
order_by(rows, InOrder(_, _)) ==
    CHOOSE seq \in [1 .. Cardinality(rows) -> rows] :
        /\ \A r \in rows : \E i \in DOMAIN seq : seq[i] = r
        /\ \A i, j \in DOMAIN seq : i < j => InOrder(seq[i], seq[j])

\* supabase.from('latest_analyses').select('*').limit(20)
select_latest_analyses ==
    SubSeq(latest_analyses, 1,
           IF Len(latest_analyses) < LatestLimit THEN Len(latest_analyses) ELSE LatestLimit)

\* .from('isotope_detections').select('*').eq('analysis_id', analysisId)
\* .order('parent_isotope', { ascending: true })
select_isotope_detections(analysisId) ==
    LET ascending(a, b) ==
            TextOrder(Isotopes, a.parent_isotope) <= TextOrder(Isotopes, b.parent_isotope)
    IN  order_by({d \in isotope_detections : d.analysis_id = analysisId}, ascending)

\* .from('mass_estimates').select('*').eq('analysis_id', analysisId)
\* .order('estimated_mass_g', { ascending: false })
select_mass_estimates(analysisId) ==
    LET descending(a, b) == a.estimated_mass_g >= b.estimated_mass_g
    IN  order_by({m \in mass_estimates : m.analysis_id = analysisId}, descending)

\* .from('analysis_plots').select('*').eq('analysis_id', analysisId)
\* .order('plot_type', { ascending: true })
select_analysis_plots(analysisId) ==
    LET ascending(a, b) ==
            TextOrder(PlotTypesAscending, a.plot_type)
                <= TextOrder(PlotTypesAscending, b.plot_type)
    IN  order_by({p \in analysis_plots : p.analysis_id = analysisId}, ascending)

\* The slots no call is running in.
FreeSlots ==
    {slot \in CallSlots : fetchAnalysisDetails[slot].pc \in {"none", "returned", "caught"}}

\* setSelectedAnalysis(id), and the effect on [selectedAnalysis] that the
\* next render runs when the value changed: it calls fetchAnalysisDetails,
\* which sends its first query.  At most MaxCalls calls run at a time.
setSelectedAnalysis(id) ==
    /\ selectedAnalysis' = <<id>>
    /\ IF selectedAnalysis = <<id>>
       THEN UNCHANGED fetchAnalysisDetails
       ELSE /\ FreeSlots # {}
            /\ LET slot == CHOOSE free \in FreeSlots : \A other \in FreeSlots : free <= other
               IN  fetchAnalysisDetails' =
                       [fetchAnalysisDetails EXCEPT
                           ![slot] = Call(<<id>>, "isotope_detections", <<>>, <<>>, <<>>)]

\* The query of fetchLatestAnalyses answers: with an error, or with the rows
\* of the view, the first of which becomes the selected analysis, and the
\* finally block sets loading to false.  React drops the state updates of a
\* component that has unmounted, and runs no effect for it.
fetchLatestAnalyses_answer(error) ==
    /\ fetchLatestAnalyses = "latest_analyses"
    /\ fetchLatestAnalyses' = "returned"
    /\ loading' = IF mounted THEN FALSE ELSE loading
    /\ IF error \/ ~mounted
       THEN UNCHANGED <<latestAnalyses, selectedAnalysis, fetchAnalysisDetails>>
       ELSE LET data == select_latest_analyses
            IN  /\ latestAnalyses' = data
                /\ IF Len(data) > 0
                   THEN setSelectedAnalysis(data[1].id)
                   ELSE UNCHANGED <<selectedAnalysis, fetchAnalysisDetails>>
    /\ UNCHANGED <<detections, massEstimates, plots, mounted, store, isotope_analyses,
                   IsotopeDashboard>>

\* onClick={() => setSelectedAnalysis(analysis.id)} on an entry of the list,
\* which is rendered once loading is false.
onClick(analysis) ==
    /\ mounted
    /\ ~loading
    /\ \E i \in DOMAIN latestAnalyses : latestAnalyses[i] = analysis
    /\ setSelectedAnalysis(analysis.id)
    /\ UNCHANGED <<latestAnalyses, detections, massEstimates, plots, loading, mounted,
                   fetchLatestAnalyses, store, isotope_analyses, IsotopeDashboard>>

\* The call in this slot ends in its catch block, which only logs.
catch(slot) ==
    fetchAnalysisDetails' =
        [fetchAnalysisDetails EXCEPT ![slot].pc = "caught"]

\* The first query of fetchAnalysisDetails answers; the call sets the
\* detections shown, unless the component has unmounted, and sends its
\* second query.
fetchAnalysisDetails_detections(slot, detectionsError) ==
    LET call == fetchAnalysisDetails[slot]
    IN  /\ call.pc = "isotope_detections"
        /\ IF detectionsError
           THEN catch(slot) /\ UNCHANGED detections
           ELSE LET detectionsData == select_isotope_detections(call.analysisId[1])
                IN  /\ detections' = IF mounted THEN detectionsData ELSE detections
                    /\ fetchAnalysisDetails' =
                           [fetchAnalysisDetails EXCEPT
                               ![slot].pc = "mass_estimates",
                               ![slot].detectionsData = detectionsData]
        /\ UNCHANGED <<latestAnalyses, selectedAnalysis, massEstimates, plots, loading,
                       mounted, fetchLatestAnalyses, store, isotope_analyses,
                       IsotopeDashboard>>

\* The second query answers; the call sets the mass estimates shown, unless
\* the component has unmounted, and sends its third query.
fetchAnalysisDetails_mass(slot, massError) ==
    LET call == fetchAnalysisDetails[slot]
    IN  /\ call.pc = "mass_estimates"
        /\ IF massError
           THEN catch(slot) /\ UNCHANGED massEstimates
           ELSE LET massData == select_mass_estimates(call.analysisId[1])
                IN  /\ massEstimates' = IF mounted THEN massData ELSE massEstimates
                    /\ fetchAnalysisDetails' =
                           [fetchAnalysisDetails EXCEPT
                               ![slot].pc = "analysis_plots",
                               ![slot].massData = massData]
        /\ UNCHANGED <<latestAnalyses, selectedAnalysis, detections, plots, loading,
                       mounted, fetchLatestAnalyses, store, isotope_analyses,
                       IsotopeDashboard>>

\* The third query answers; the call sets the plots shown, unless the
\* component has unmounted, and returns.
fetchAnalysisDetails_plots(slot, plotsError) ==
    LET call == fetchAnalysisDetails[slot]
    IN  /\ call.pc = "analysis_plots"
        /\ IF plotsError
           THEN catch(slot) /\ UNCHANGED plots
           ELSE LET plotsData == select_analysis_plots(call.analysisId[1])
                IN  /\ plots' = IF mounted THEN plotsData ELSE plots
                    /\ fetchAnalysisDetails' =
                           [fetchAnalysisDetails EXCEPT
                               ![slot].pc = "returned",
                               ![slot].plotsData = plotsData]
        /\ UNCHANGED <<latestAnalyses, selectedAnalysis, detections, massEstimates, loading,
                       mounted, fetchLatestAnalyses, store, isotope_analyses,
                       IsotopeDashboard>>

\* AnalysisDashboard unmounts.  Its effects return no cleanup, so the calls
\* in flight go on, and React drops the state they set from then on.
unmount_AnalysisDashboard ==
    /\ mounted
    /\ mounted' = FALSE
    /\ UNCHANGED <<latestAnalyses, selectedAnalysis, detections, massEstimates, plots,
                   loading, fetchLatestAnalyses, fetchAnalysisDetails, store,
                   isotope_analyses, seen, IsotopeDashboard>>

\* ------------------------- reads interleaved with writes of a session (C8)

\* The detections, mass estimates and plots the database holds of a session.
RecordsOf(analysisId) ==
    <<select_isotope_detections(analysisId), select_mass_estimates(analysisId),
      select_analysis_plots(analysisId)>>

\* Every step adds, for each call that awaits a query, the records its
\* session has after the step; a call that has returned keeps what it has.
Observe ==
    seen' = [slot \in CallSlots |->
                LET call == fetchAnalysisDetails'[slot]
                    began == /\ call.pc = "isotope_detections"
                             /\ fetchAnalysisDetails[slot].pc # "isotope_detections"
                    after == {RecordsOf(id)' :
                                 id \in {i \in SessionIds : call.analysisId = <<i>>}}
                IN  CASE call.pc \in {"none", "caught"} -> {}
                      [] call.pc = "returned" -> seen[slot]
                      [] began -> after
                      [] OTHER -> seen[slot] \cup after]

\* The user selects an analysis only while no other call is in flight: the
\* calls all run in the first slot.
OneCallAtATime ==
    \A slot \in CallSlots \ {1} : fetchAnalysisDetails'[slot] = NoCall

\* A statement of the writer, in a specification that observes the calls.
Observed ==
    request' = NULL /\ UNCHANGED <<isotope_analyses, dashboard, IsotopeDashboard>> /\ Observe

NextRead ==
    \/ \E id \in SessionIds :
           INSERT_analysis_sessions(Session(id, <<1, 1>>)) /\ Observed
    \/ \E id \in SessionIds : DELETE_analysis_sessions(id) /\ Observed
    \/ \E id \in SessionIds :
           INSERT_isotope_detections(<<Detection(id, "Cs-137", 662, 2, 1, NULL)>>)
               /\ Observed
    \/ \E id \in SessionIds :
           INSERT_mass_estimates(<<MassEstimate(id, "Cs-137", 2, 1, NULL)>>) /\ Observed
    \/ \E error \in BOOLEAN :
           fetchLatestAnalyses_answer(error) /\ OneCallAtATime /\ Observe
    \/ \E i \in DOMAIN latestAnalyses :
           onClick(latestAnalyses[i]) /\ OneCallAtATime /\ Observe
    \/ \E slot \in CallSlots, error \in BOOLEAN :
           fetchAnalysisDetails_detections(slot, error) /\ Observe
    \/ \E slot \in CallSlots, error \in BOOLEAN :
           fetchAnalysisDetails_mass(slot, error) /\ Observe
    \/ \E slot \in CallSlots, error \in BOOLEAN :
           fetchAnalysisDetails_plots(slot, error) /\ Observe

SpecRead == Init /\ [][NextRead]_vars

\* C8: what a call of fetchAnalysisDetails that has returned read of its
\* session (detections, mass estimates and plots) is what the database held
\* of that session at one instant of the call: all of a write or none of it.
C8_NoPartialSession ==
    \A slot \in CallSlots :
        LET call == fetchAnalysisDetails[slot]
        IN  call.pc = "returned" =>
                <<call.detectionsData, call.massData, call.plotsData>> \in seen[slot]

\* ------------------------- isotope_analyses (src/unnamed/part_002) (C10)

\* A row of isotope_analyses, in the columns the views and the dashboard
\* statistics read; isotope_families_detected is a TEXT[], a sequence.
\* timestamp is a TIMESTAMPTZ, here the hours since an epoch; background_peaks
\* is left to its DEFAULT 0.
AnalysisAt(id, sample_name, isotope_families_detected, status, total_peaks_found, timestamp) ==
    [id |-> id, sample_name |-> sample_name,
     isotope_families_detected |-> isotope_families_detected,
     status |-> status, total_peaks_found |-> total_peaks_found,
     background_peaks |-> 0, timestamp |-> timestamp]

\* The same row inserted at hour 0.
Analysis(id, sample_name, isotope_families_detected, status, total_peaks_found) ==
    AnalysisAt(id, sample_name, isotope_families_detected, status, total_peaks_found, 0)

\* What a statement on isotope_analyses leaves alone.
outside_isotope_analyses == <<tables, request, dashboard, seen, IsotopeDashboard>>

\* INSERT INTO isotope_analyses VALUES row, with id given: id is the PRIMARY KEY.
INSERT_isotope_analyses(row) ==
    /\ IF \E a \in isotope_analyses : a.id = row.id
       THEN sqlstate' = unique_violation /\ UNCHANGED isotope_analyses
       ELSE /\ sqlstate' = successful_completion
            /\ isotope_analyses' = isotope_analyses \cup {row}
    /\ UNCHANGED outside_isotope_analyses

\* UPDATE isotope_analyses SET status = status WHERE id = old.id
UPDATE_isotope_analyses(old, status) ==
    /\ old \in isotope_analyses
    /\ isotope_analyses' = (isotope_analyses \ {old}) \cup {[old EXCEPT !.status = status]}
    /\ sqlstate' = successful_completion
    /\ UNCHANGED outside_isotope_analyses

\* DELETE FROM isotope_analyses WHERE id = old.id
DELETE_isotope_analyses(old) ==
    /\ old \in isotope_analyses
    /\ isotope_analyses' = isotope_analyses \ {old}
    /\ sqlstate' = successful_completion
    /\ UNCHANGED outside_isotope_analyses

\* (SELECT COUNT(*) FROM public.isotope_analyses WHERE status = 'completed')
count_completed == Cardinality({a \in isotope_analyses : a.status = "completed"})

\* FROM isotope_analyses, LATERAL unnest(isotope_families_detected) as isotope
\* with every status: each row with each position of its array.
isotope_frequency_from_any_status ==
    UNION {{[a |-> a, position |-> i, isotope |-> a.isotope_families_detected[i]] :
               i \in DOMAIN a.isotope_families_detected} : a \in isotope_analyses}

\* FROM isotope_analyses, LATERAL unnest(isotope_families_detected) as isotope
\* WHERE status = 'completed'
isotope_frequency_from ==
    {r \in isotope_frequency_from_any_status : r.a.status = "completed"}

\* ROUND(n::numeric / d * 100, 2) in hundredths, for n >= 0 and d > 0: the
\* nearest hundredth, a tie away from zero.
round_percentage(n, d) == (2 * n * 10000 + d) \div (2 * d)

\* One group of isotope_frequency.  The select list divides by the number of
\* completed rows, and a division by zero raises.
isotope_frequency_group(isotope) ==
    LET group == {r \in isotope_frequency_from : r.isotope = isotope}
        count == Cardinality(group)
    IN  IF count_completed = 0
        THEN [sqlstate |-> division_by_zero]
        ELSE [sqlstate |-> successful_completion,
              row |-> [isotope |-> isotope,
                       detection_count |-> count,
                       unique_samples |-> Cardinality({r.a.sample_name : r \in group}),
                       detection_percentage |->
                           round_percentage(count, count_completed)]]

\* SELECT * FROM isotope_frequency: the SQLSTATE and, without an error, the
\* rows, ORDER BY detection_count DESC.  The select list is computed once
\* for each group, so with no group nothing is computed.
isotope_frequency ==
    LET groups == {isotope_frequency_group(isotope) :
                      isotope \in {r.isotope : r \in isotope_frequency_from}}
        descending(a, b) == a.detection_count >= b.detection_count
    IN  IF \E g \in groups : g.sqlstate # successful_completion
        THEN [sqlstate |-> division_by_zero, rows |-> <<>>]
        ELSE [sqlstate |-> successful_completion,
              rows |-> order_by({g.row : g \in groups}, descending)]

\* An isotopeFreq that counts the analyses of every status.
isotopeFreq_of_any_status(data) ==
    LET listed == UNION {{[a |-> a, position |-> i,
                           isotope |-> a.isotope_families_detected[i]] :
                             i \in DOMAIN a.isotope_families_detected} :
                         a \in data}
    IN  [isotope \in {l.isotope : l \in listed} |->
            Cardinality({l \in listed : l.isotope = isotope})]

\* calculateStats of src/app/page.tsx, its isotopeFreq: for each isotope that
\* a completed analysis of data lists, the number of times it is listed.
isotopeFreq(data) ==
    LET completedAnalyses == {a \in data : a.status = "completed"}
        listed == UNION {{[a |-> a, position |-> i,
                           isotope |-> a.isotope_families_detected[i]] :
                             i \in DOMAIN a.isotope_families_detected} :
                         a \in completedAnalyses}
    IN  [isotope \in {l.isotope : l \in listed} |->
            Cardinality({l \in listed : l.isotope = isotope})]

AnalysisIds == 1 .. MaxAnalyses

SampleNames == {"sample-a", "sample-b"}

Statuses == {"pending", "completed", "failed"}

FamiliesDetected == {<<>>, <<"Cs-137">>, <<"Cs-137", "Cs-137">>, <<"Co-60", "Cs-137">>}

NextFrequency ==
    \/ \E id \in AnalysisIds, sample \in SampleNames, families \in FamiliesDetected,
          status \in Statuses :
           INSERT_isotope_analyses(Analysis(id, sample, families, status, 0))
    \/ \E old \in isotope_analyses, status \in Statuses :
           UPDATE_isotope_analyses(old, status)
    \/ \E old \in isotope_analyses : DELETE_isotope_analyses(old)

SpecFrequency == Init /\ [][NextFrequency]_vars

\* C10: with no completed analysis, whatever analyses of other statuses the
\* table holds, the isotope frequency query succeeds with no rows, and the
\* dashboard's isotope frequency has no entry.
C10_NoCompletedNoData ==
    count_completed = 0 =>
        /\ isotope_frequency.sqlstate # division_by_zero
        /\ isotope_frequency = [sqlstate |-> successful_completion, rows |-> <<>>]
        /\ DOMAIN isotopeFreq(isotope_analyses) = {}

\* A pending and a failed analysis that list isotopes and no completed one,
\* and the query answers with no rows.
C10_Witness ==
    /\ count_completed = 0
    /\ \E a \in isotope_analyses :
           a.status = "pending" /\ Len(a.isotope_families_detected) > 0
    /\ \E a \in isotope_analyses :
           a.status = "failed" /\ Len(a.isotope_families_detected) > 0
    /\ isotope_frequency.rows = <<>>

\* ------------------------------- the isotope frequency of the view (C11)

\* The completed analyses that list the isotope, each once.
CompletedWith(isotope) ==
    {a \in isotope_analyses :
        /\ a.status = "completed"
        /\ \E i \in DOMAIN a.isotope_families_detected :
               a.isotope_families_detected[i] = isotope}

\* C11: every row of isotope_frequency counts the completed analyses that
\* list its isotope, each analysis once, its percentage is that count over
\* the number of completed analyses, between 0 and 100, and the dashboard's
\* isotope frequency holds the same count.
C11_CountsSessionsOnce ==
    /\ \A i \in DOMAIN isotope_frequency.rows :
           LET row == isotope_frequency.rows[i]
           IN  /\ row.detection_count = Cardinality(CompletedWith(row.isotope))
               /\ row.detection_percentage =
                      round_percentage(Cardinality(CompletedWith(row.isotope)),
                                       count_completed)
               /\ row.detection_percentage >= 0
               /\ row.detection_percentage <= 100 * 100
    /\ \A isotope \in DOMAIN isotopeFreq(isotope_analyses) :
           isotopeFreq(isotope_analyses)[isotope] = Cardinality(CompletedWith(isotope))

\* --------------------- the daily rollup, view analysis_summary of part_002 (C12)

HoursPerDay == 24

\* DATE_TRUNC('day', timestamp), in the time zone of the session that reads.
date_trunc_day(timestamp) == (timestamp \div HoursPerDay) * HoursPerDay

\* The sum of the second components of a set of pairs.
RECURSIVE sum(_)
sum(pairs) ==
    IF pairs = {} THEN 0
    ELSE LET pair == CHOOSE pair \in pairs : TRUE
         IN  pair[2] + sum(pairs \ {pair})

\* FROM (completed rows) ia
\* LEFT JOIN LATERAL unnest(ia.isotope_families_detected) AS iso(isotope) ON true
\* LEFT JOIN (days of all rows) ia_day ON ia_day.id = ia.id
\* A completed row comes once for each position of its array, and once with
\* a NULL isotope when the array is empty.
daily_summary_from ==
    UNION {IF a.isotope_families_detected = <<>>
           THEN {[ia |-> a, position |-> 0, isotope |-> NULL,
                  analysis_date |-> date_trunc_day(a.timestamp)]}
           ELSE {[ia |-> a, position |-> i,
                  isotope |-> <<a.isotope_families_detected[i]>>,
                  analysis_date |-> date_trunc_day(a.timestamp)] :
                    i \in DOMAIN a.isotope_families_detected} :
           a \in {a \in isotope_analyses : a.status = "completed"}}

\* One group of the view: GROUP BY ia_day.analysis_date.
daily_summary_group(analysis_date) ==
    LET group == {r \in daily_summary_from : r.analysis_date = analysis_date}
    IN  [analysis_date |-> analysis_date,
         total_analyses |-> Cardinality(group),
         avg_peaks |->
             Quotient(sum({<<r, r.ia.total_peaks_found>> : r \in group}),
                      Cardinality(group)),
         avg_background_peaks |->
             Quotient(sum({<<r, r.ia.background_peaks>> : r \in group}),
                      Cardinality(group)),
         unique_samples |-> Cardinality({r.ia.sample_name : r \in group}),
         all_isotopes_detected |-> {r.isotope : r \in group}]

\* SELECT * FROM analysis_summary (the view of part_002), ORDER BY
\* analysis_date DESC.
daily_summary ==
    LET descending(a, b) == a.analysis_date >= b.analysis_date
    IN  order_by({daily_summary_group(day) : day \in {r.analysis_date : r \in daily_summary_from}},
                 descending)

PeaksFound == {1, 4}

Timestamps == {1, HoursPerDay + 1}

NextDaily ==
    \/ \E id \in AnalysisIds, families \in FamiliesDetected, status \in {"pending", "completed"},
          peaks \in PeaksFound, timestamp \in Timestamps :
           INSERT_isotope_analyses(
               AnalysisAt(id, "sample-a", families, status, peaks, timestamp))
    \/ \E old \in isotope_analyses, status \in {"pending", "completed"} :
           UPDATE_isotope_analyses(old, status)
    \/ \E old \in isotope_analyses : DELETE_isotope_analyses(old)

SpecDaily == Init /\ [][NextDaily]_vars

\* The completed analyses of a day.
CompletedOn(day) ==
    {a \in isotope_analyses : a.status = "completed" /\ date_trunc_day(a.timestamp) = day}

\* C12: the view has one row for each day that has a completed analysis;
\* its total_analyses is the number of completed analyses of that day and
\* its avg_peaks the mean of their total_peaks_found.
C12_DailyCountsSessions ==
    /\ {daily_summary[i].analysis_date : i \in DOMAIN daily_summary}
           = {date_trunc_day(a.timestamp) :
                 a \in {a \in isotope_analyses : a.status = "completed"}}
    /\ \A i \in DOMAIN daily_summary :
           LET row == daily_summary[i]
               of_day == CompletedOn(row.analysis_date)
           IN  /\ row.total_analyses = Cardinality(of_day)
               /\ row.avg_peaks =
                      Quotient(sum({<<a, a.total_peaks_found>> : a \in of_day}),
                               Cardinality(of_day))

\* ---------------------------------- the rows of detection_results (C13)

\* The peaks a writer stores: one of Cs-137 and two of Co-60.
Peaks == {<<"Cs-137", 662>>, <<"Co-60", 1173>>, <<"Co-60", 1332>>}

NextResults ==
    \/ \E id \in SessionIds :
           INSERT_analysis_sessions(Session(id, <<1, 1>>)) /\ UNCHANGED unlogged
    \/ \E id \in SessionIds : DELETE_analysis_sessions(id) /\ UNCHANGED unlogged
    \/ \E id \in SessionIds : \E peak \in Peaks :
           INSERT_isotope_detections(<<Detection(id, peak[1], peak[2], 2, 1, NULL)>>)
               /\ UNCHANGED unlogged
    \/ \E old \in isotope_detections : DELETE_isotope_detections(old) /\ UNCHANGED unlogged
    \/ \E id \in SessionIds : \E p \in IsotopeNames :
           INSERT_mass_estimates(<<MassEstimate(id, p, 2, 1, NULL)>>) /\ UNCHANGED unlogged
    \/ \E old \in mass_estimates : DELETE_mass_estimates(old) /\ UNCHANGED unlogged

SpecResults == Init /\ [][NextResults]_vars

\* The mass estimates of the session and parent isotope of a detection.
EstimatesOf(d) ==
    {m \in mass_estimates :
        m.analysis_id = d.analysis_id /\ m.parent_isotope = d.parent_isotope}

\* The rows of the view, by their place in it, that show the detection: its
\* session's file and its parent, daughter and energy.
ShownOf(view, d) ==
    {i \in 1 .. Len(view) :
        /\ view[i].sample_filename = SampleFilenames[d.analysis_id]
        /\ view[i].parent_isotope = d.parent_isotope
        /\ view[i].daughter_isotope = d.daughter_isotope
        /\ view[i].gamma_energy_kev = d.gamma_energy_kev}

\* C13: detection_results has exactly one row for each stored detection and
\* no other row; the row has NULL mass fields when no mass estimate is of the
\* detection's session and parent isotope, and that estimate's fields when
\* there is one.
C13_OneRowPerDetection ==
    \A view \in {detection_results} :
        /\ Len(view) = Cardinality(isotope_detections)
        /\ \A d \in isotope_detections :
               /\ Cardinality(ShownOf(view, d)) = 1
               /\ \A i \in ShownOf(view, d) :
                      /\ view[i].detected_counts = d.detected_counts
                      /\ IF EstimatesOf(d) = {}
                         THEN /\ view[i].estimated_mass_g = NULL
                              /\ view[i].mass_uncertainty_g = NULL
                              /\ view[i].relative_mass_uncertainty = NULL
                         ELSE \E m \in EstimatesOf(d) :
                                  /\ view[i].estimated_mass_g = <<m.estimated_mass_g>>
                                  /\ view[i].mass_uncertainty_g = <<m.mass_uncertainty_g>>
                                  /\ view[i].relative_mass_uncertainty
                                         = m.relative_mass_uncertainty

\* A session with the Cs-137 peak and no Cs-137 estimate, and with the two
\* Co-60 peaks and one Co-60 estimate: three rows in the view, the two of
\* Co-60 first and by their energy, the one of Cs-137 last and with
\* undefined mass fields.
C13_Witness ==
    /\ Cardinality({d \in isotope_detections : d.analysis_id = 1}) = 3
    /\ {m.parent_isotope : m \in {m \in mass_estimates : m.analysis_id = 1}} = {"Co-60"}
    /\ analysis_sessions = {Session(1, <<1, 1>>)}
    /\ \E view \in {detection_results} :
           /\ Len(view) = 3
           /\ view[1].gamma_energy_kev = 1173
           /\ view[2].gamma_energy_kev = 1332
           /\ view[3].parent_isotope = "Cs-137"
           /\ view[3].estimated_mass_g = NULL

\* ------------------------------------- the rows of latest_analyses (C14)

\* A session whose analysis ran at the given time.
SessionAt(id, threshold, timestamp) ==
    [Session(id, threshold) EXCEPT !.analysis_timestamp = timestamp]

AnalysisTimestamps == {1, 2}

\* The plot of an id: a region-of-interest plot when the id is odd, the
\* overview of the spectrum when it is even.
PlotOf(pid, session) ==
    IF pid % 2 = 1
    THEN Plot(pid, session, "roi_plot", PlotMetadata(<<"Cs-137">>, <<662>>))
    ELSE Plot(pid, session, "spectrum_overview", PlotMetadata(NULL, NULL))

NextLatest ==
    \/ \E id \in SessionIds, timestamp \in AnalysisTimestamps :
           INSERT_analysis_sessions(SessionAt(id, <<1, 1>>, timestamp)) /\ UNCHANGED unlogged
    \/ \E id \in SessionIds : DELETE_analysis_sessions(id) /\ UNCHANGED unlogged
    \/ \E id \in SessionIds :
           INSERT_analysis_summary(Summary(id, 2, 1, 1, <<"Cs-137">>)) /\ UNCHANGED unlogged
    \/ \E old \in analysis_summary : DELETE_analysis_summary(old) /\ UNCHANGED unlogged
    \/ \E pid \in PlotIds, id \in SessionIds :
           INSERT_analysis_plots(PlotOf(pid, id)) /\ UNCHANGED unlogged
    \/ \E old \in analysis_plots : DELETE_analysis_plots(old) /\ UNCHANGED unlogged

SpecLatest == Init /\ [][NextLatest]_vars

PlotsOf(id) == {p \in analysis_plots : p.analysis_id = id}

\* C14: latest_analyses has exactly one row for each session and no other
\* row, in the descending order of analysis_timestamp; total_plots is the
\* number of the session's plots and roi_plots_count the number of those of
\* type roi_plot, at most total_plots.
C14_OneRowPerSession ==
    /\ Len(latest_analyses) = Cardinality(analysis_sessions)
    /\ \A s \in analysis_sessions :
           \E i \in DOMAIN latest_analyses :
               LET row == latest_analyses[i]
               IN  /\ row.id = s.id
                   /\ row.analysis_timestamp = s.analysis_timestamp
                   /\ row.total_plots = Cardinality(PlotsOf(s.id))
                   /\ row.roi_plots_count =
                          Cardinality({p \in PlotsOf(s.id) : p.plot_type = "roi_plot"})
                   /\ row.roi_plots_count <= row.total_plots
    /\ \A i, j \in DOMAIN latest_analyses :
           i < j => latest_analyses[i].analysis_timestamp
                        >= latest_analyses[j].analysis_timestamp

\* The older session 2, with a summary and two plots of which one is a
\* region-of-interest plot, comes after the newer session 1, which has
\* neither a summary nor a plot.
C14_Witness ==
    /\ Len(latest_analyses) = 2
    /\ latest_analyses[1].id = 1
    /\ latest_analyses[1].analysis_timestamp = 2
    /\ latest_analyses[1].total_estimated_mass_g = NULL
    /\ latest_analyses[1].total_plots = 0
    /\ latest_analyses[2].id = 2
    /\ latest_analyses[2].analysis_timestamp = 1
    /\ latest_analyses[2].total_estimated_mass_g = <<2>>
    /\ latest_analyses[2].total_plots = 2
    /\ latest_analyses[2].roi_plots_count = 1

\* ------------------------------------------ the order of the plots (C15)

\* A NULL text or number sorts after every value (ascending, NULLS LAST).
IsotopeOrNullOrder(isotope) ==
    IF isotope = NULL THEN Len(Isotopes) + 1 ELSE TextOrder(Isotopes, isotope[1])

\* a comes no later than b under sort keys compared one after the other.
LexicographicOrder(a, b) ==
    \/ a = b
    \/ \E i \in DOMAIN a :
           /\ a[i] < b[i]
           /\ \A k \in 1 .. i - 1 : a[k] = b[k]

\* SELECT * FROM plot_catalog: no row when the query raised, else the joined
\* rows,
\* ORDER BY s.analysis_timestamp DESC, p.plot_type, parent_isotope.
plot_catalog ==
    IF plot_catalog_sqlstate # successful_completion THEN <<>>
    ELSE
    LET key(j) == <<0 - j.s.analysis_timestamp,
                    TextOrder(PlotTypesAscending, j.p.plot_type),
                    IsotopeOrNullOrder(plot_catalog_rows[j].parent_isotope)>>
        in_order(a, b) == LexicographicOrder(key(a), key(b))
        ordered == order_by(plot_catalog_join, in_order)
    IN  [i \in DOMAIN ordered |-> plot_catalog_rows[ordered[i]]]

\* CASE p.plot_type WHEN 'spectrum_overview' THEN 1 ... WHEN 'roi_plot' THEN 4 END
plot_type_case(plot_type) ==
    CASE plot_type = "spectrum_overview" -> 1
      [] plot_type = "mass_distribution" -> 2
      [] plot_type = "uncertainty_analysis" -> 3
      [] plot_type = "roi_plot" -> 4

\* (p.plot_metadata->>'gamma_energy_kev')::REAL NULLS LAST: the sort keys of
\* an energy, a NULL after every number.
energy_nulls_last(energy) == IF energy = NULL THEN <<1, 0>> ELSE <<0, energy[1]>>

\* The SQLSTATE of SELECT * FROM get_analysis_plots(analysis_session_id): the
\* sort key is computed for every plot of the session, and one cast that
\* raises aborts the function.
get_analysis_plots_sqlstate(analysis_session_id) ==
    IF \E p \in analysis_plots :
           /\ p.analysis_id = analysis_session_id
           /\ real_cast_raises(p.plot_metadata.gamma_energy_kev)
    THEN invalid_text_representation
    ELSE successful_completion

\* SELECT * FROM get_analysis_plots(analysis_session_id): the rows in
\* order, and no row when the function raised.
get_analysis_plots(analysis_session_id) ==
    IF get_analysis_plots_sqlstate(analysis_session_id) # successful_completion THEN <<>>
    ELSE
    LET key(plot) == <<plot_type_case(plot.plot_type)>>
                         \o energy_nulls_last(plot.plot_metadata.gamma_energy_kev)
        in_order(a, b) == LexicographicOrder(key(a), key(b))
        ordered == order_by({plot \in analysis_plots : plot.analysis_id = analysis_session_id},
                            in_order)
    IN  [i \in DOMAIN ordered |->
            [plot_type |-> ordered[i].plot_type,
             plot_title |-> ordered[i].plot_title,
             plot_data_base64 |-> ordered[i].plot_data_base64,
             plot_metadata |-> ordered[i].plot_metadata]]

\* The rows of a sequence of plots come by type in the order overview,
\* mass distribution, uncertainty, region of interest.
InTypeOrder(rows) ==
    \A i, j \in DOMAIN rows :
        i < j => plot_type_case(rows[i].plot_type) <= plot_type_case(rows[j].plot_type)

\* C15: plot_catalog has one row for each plot, and the plots of a session
\* come by type in the order overview, mass distribution, uncertainty, region
\* of interest, in the view and in the plots the dashboard fetches.
C15_FixedTypeOrder ==
    /\ Len(plot_catalog) = Cardinality(analysis_plots)
    /\ \A s \in analysis_sessions :
           /\ \A i, j \in DOMAIN plot_catalog :
                  /\ i < j
                  /\ plot_catalog[i].sample_filename = s.sample_filename
                  /\ plot_catalog[j].sample_filename = s.sample_filename
                  => plot_type_case(plot_catalog[i].plot_type)
                         <= plot_type_case(plot_catalog[j].plot_type)
           /\ InTypeOrder(select_analysis_plots(s.id))

\* ------------------------------ the dominant isotope of a summary (C16)

DominantInputs == {NULL} \cup {<<p>> : p \in IsotopeNames}

NextDominant ==
    \/ \E id \in SessionIds :
           INSERT_analysis_sessions(Session(id, <<1, 1>>)) /\ UNCHANGED unlogged
    \/ \E id \in SessionIds : \E p \in IsotopeNames : \E mass \in {2, 3} :
           INSERT_mass_estimates(<<MassEstimate(id, p, mass, 1, NULL)>>)
               /\ UNCHANGED unlogged
    \/ \E old \in mass_estimates : DELETE_mass_estimates(old) /\ UNCHANGED unlogged
    \/ \E id \in SessionIds : \E dominant \in DominantInputs :
           INSERT_analysis_summary(Summary(id, 0, 0, 0, dominant)) /\ UNCHANGED unlogged
    \/ \E old \in analysis_summary : \E dominant \in DominantInputs :
           UPDATE_analysis_summary(old, [old EXCEPT !.dominant_isotope = dominant])
               /\ UNCHANGED unlogged
    \/ \E old \in analysis_summary : DELETE_analysis_summary(old) /\ UNCHANGED unlogged

SpecDominant == Init /\ [][NextDominant]_vars

\* The parent isotopes of the largest estimated mass among the mass
\* estimates of a session.
HeaviestOf(id) ==
    {m.parent_isotope :
        m \in {m \in mass_estimates :
                  /\ m.analysis_id = id
                  /\ \A n \in mass_estimates :
                         n.analysis_id = id => n.estimated_mass_g <= m.estimated_mass_g}}

\* C16: the summary of a session that has a mass estimate names as
\* dominant_isotope the parent isotope of the largest estimated mass, the
\* first in the order of the text among several.
C16_DominantIsHeaviest ==
    \A summary \in analysis_summary :
        HeaviestOf(summary.analysis_id) # {} =>
            /\ summary.dominant_isotope # NULL
            /\ summary.dominant_isotope[1] \in HeaviestOf(summary.analysis_id)
            /\ \A p \in HeaviestOf(summary.analysis_id) :
                   TextOrder(Isotopes, summary.dominant_isotope[1])
                       <= TextOrder(Isotopes, p)

\* ------------------- the Mass Distribution of AnalysisDashboard (C17)

\* latestAnalyses.find(a => a.id === selectedAnalysis): the first such entry,
\* NULL for undefined.
currentAnalysis ==
    LET found == {i \in DOMAIN latestAnalyses : <<latestAnalyses[i].id>> = selectedAnalysis}
    IN  IF found = {} THEN NULL
        ELSE <<latestAnalyses[CHOOSE i \in found : \A k \in found : i <= k]>>

\* .slice(0, 5)
MassDistributionLimit == 5

\* A JavaScript number: a finite one, as a fraction, or NaN or Infinity.
Number(kind, value) == [kind |-> kind, value |-> value]

\* (x / y) * 100 for a number x >= 0 and a number or null y >= 0: null counts
\* as 0, a division of 0 by 0 gives NaN and of another number by 0 Infinity.
percentage(x, y) ==
    LET divisor == IF y = NULL THEN 0 ELSE y[1]
    IN  IF divisor = 0
        THEN IF x = 0 THEN Number("NaN", <<0, 1>>) ELSE Number("Infinity", <<0, 1>>)
        ELSE Number("finite", Quotient(x * 100, divisor))

\* What the Mass Distribution block of the overview shows: nothing, or for
\* each of the first five mass estimates its isotope and its percentage of
\* the total of the current analysis.
MassDistribution ==
    IF \/ loading
       \/ currentAnalysis = NULL
       \/ currentAnalysis[1].dominant_isotope \in {NULL, <<"">>}
       \/ Len(massEstimates) = 0
    THEN <<>>
    ELSE [i \in 1 .. (IF Len(massEstimates) < MassDistributionLimit
                      THEN Len(massEstimates) ELSE MassDistributionLimit) |->
             [parent_isotope |-> massEstimates[i].parent_isotope,
              percentage |-> percentage(massEstimates[i].estimated_mass_g,
                                        currentAnalysis[1].total_estimated_mass_g)]]

NextDistribution ==
    \/ \E id \in SessionIds :
           INSERT_analysis_sessions(Session(id, <<1, 1>>)) /\ UNCHANGED unlogged
    \/ \E id \in SessionIds : \E mass \in {0, 2} :
           INSERT_mass_estimates(<<MassEstimate(id, "Cs-137", mass, 1, NULL)>>)
               /\ UNCHANGED unlogged
    \/ \E id \in SessionIds : \E total \in {0, 2} :
           INSERT_analysis_summary(Summary(id, total, 1, 1, <<"Cs-137">>))
               /\ UNCHANGED unlogged
    \/ \E error \in BOOLEAN :
           fetchLatestAnalyses_answer(error) /\ OneCallAtATime /\ UNCHANGED seen
    \/ \E i \in DOMAIN latestAnalyses :
           onClick(latestAnalyses[i]) /\ OneCallAtATime /\ UNCHANGED seen
    \/ \E slot \in CallSlots, error \in BOOLEAN :
           fetchAnalysisDetails_detections(slot, error) /\ UNCHANGED seen
    \/ \E slot \in CallSlots, error \in BOOLEAN :
           fetchAnalysisDetails_mass(slot, error) /\ UNCHANGED seen
    \/ \E slot \in CallSlots, error \in BOOLEAN :
           fetchAnalysisDetails_plots(slot, error) /\ UNCHANGED seen

SpecDistribution == Init /\ [][NextDistribution]_vars

\* C17: when the total estimated mass of the current analysis is 0, the
\* dashboard shows no fraction for any isotope; and no fraction shown is NaN
\* or infinite.
C17_NoFractionOfZeroTotal ==
    /\ currentAnalysis # NULL /\ currentAnalysis[1].total_estimated_mass_g = <<0>>
           => MassDistribution = <<>>
    /\ \A i \in DOMAIN MassDistribution : MassDistribution[i].percentage.kind = "finite"

\* ------------------------------ the derivation rule applied again (C18)

\* The relative values a writer sends with a row: none, or one of its own.
RelativeInputs == {NULL, <<7, 1>>}

\* An UPDATE of a detection is logged as the row it finds and the row it sets.
NextDerive ==
    \/ \E id \in SessionIds :
           INSERT_analysis_sessions(Session(id, <<1, 1>>)) /\ Logged(NULL)
    \/ \E id \in SessionIds, counts \in {0, 2}, relative \in RelativeInputs :
           INSERT_isotope_detections(<<Detection(id, "Cs-137", 662, counts, 1, relative)>>)
               /\ Logged(NULL)
    \/ \E old \in isotope_detections, counts \in {0, 2}, relative \in RelativeInputs :
           LET set == [old EXCEPT !.detected_counts = counts,
                                  !.relative_uncertainty = relative]
           IN  UPDATE_isotope_detections(old, set) /\ Logged(<<old, set>>)
    \/ \E id \in SessionIds, mass \in {0, 2}, relative \in RelativeInputs :
           INSERT_mass_estimates(<<MassEstimate(id, "Cs-137", mass, 1, relative)>>)
               /\ Logged(NULL)
    \/ \E old \in mass_estimates, mass \in {0, 2}, relative \in RelativeInputs :
           UPDATE_mass_estimates(old, [old EXCEPT !.estimated_mass_g = mass,
                                                  !.relative_mass_uncertainty = relative])
               /\ Logged(NULL)

SpecDerive == Init /\ [][NextDerive]_vars

\* C18: every stored detection and mass estimate is what the derivation rule
\* makes of it again, whatever relative value it is given before; and two
\* stored records of equal magnitude and uncertainty have equal relative
\* values.
C18_DerivationIdempotent ==
    /\ \A d \in isotope_detections :
           /\ validate_isotope_detection(d) = d
           /\ \A previous \in RelativeInputs :
                  validate_isotope_detection([d EXCEPT !.relative_uncertainty = previous]) = d
           /\ \A e \in isotope_detections :
                  /\ e.detected_counts = d.detected_counts
                  /\ e.count_uncertainty = d.count_uncertainty
                  => e.relative_uncertainty = d.relative_uncertainty
    /\ \A m \in mass_estimates :
           /\ validate_mass_estimate(m) = m
           /\ \A previous \in RelativeInputs :
                  validate_mass_estimate([m EXCEPT !.relative_mass_uncertainty = previous]) = m
           /\ \A n \in mass_estimates :
                  /\ n.estimated_mass_g = m.estimated_mass_g
                  /\ n.mass_uncertainty_g = m.mass_uncertainty_g
                  => n.relative_mass_uncertainty = m.relative_mass_uncertainty

\* An UPDATE that sets the counts and the uncertainty a detection has, and a
\* relative uncertainty it has not, has left the detection as it was.
C18_Witness ==
    /\ request # NULL
    /\ sqlstate = successful_completion
    /\ request[2].detected_counts = request[1].detected_counts
    /\ request[2].detected_counts > 0
    /\ request[2].relative_uncertainty = <<7, 1>>
    /\ request[1].relative_uncertainty = <<1, 2>>
    /\ request[1] \in isotope_detections

\* ------------------------------------------ the plots that are stored (C19)

\* The metadata a writer sends with a plot: the isotope and the energy of a
\* region of interest, the isotope alone, or neither.
MetadataInputs ==
    {PlotMetadata(<<"Cs-137">>, <<662>>), PlotMetadata(<<"Cs-137">>, NULL),
     PlotMetadata(NULL, NULL)}

NextPlots ==
    \/ \E id \in SessionIds :
           INSERT_analysis_sessions(Session(id, <<1, 1>>)) /\ UNCHANGED unlogged
    \/ \E pid \in PlotIds, id \in SessionIds, type \in PlotTypes \cup {"histogram"},
          metadata \in MetadataInputs :
           INSERT_analysis_plots(Plot(pid, id, type, metadata)) /\ UNCHANGED unlogged
    \/ \E old \in analysis_plots, type \in PlotTypes \cup {"histogram"} :
           UPDATE_analysis_plots(old, [old EXCEPT !.plot_type = type]) /\ UNCHANGED unlogged
    \/ \E old \in analysis_plots : DELETE_analysis_plots(old) /\ UNCHANGED unlogged

SpecPlots == Init /\ [][NextPlots]_vars

\* C19: every stored plot has one of the four types, and every stored
\* region-of-interest plot has an isotope and an energy in its metadata.
C19_RoiPlotsHaveIsotopeAndEnergy ==
    \A plot \in analysis_plots :
        /\ plot.plot_type \in PlotTypes
        /\ plot.plot_type = "roi_plot" =>
               /\ plot.plot_metadata.parent_isotope # NULL
               /\ plot.plot_metadata.gamma_energy_kev # NULL

\* ---------------------------------- the bounds of the stored fields (C20)

\* Confidence thresholds a writer sends: 0, 1/2, 1 and 2.
ThresholdInputs == {<<0, 1>>, <<1, 2>>, <<1, 1>>, <<2, 1>>}

\* The <<gamma_energy_kev, detected_counts, count_uncertainty>> a writer
\* sends: one within the bounds and one out of each bound.
DetectionsAtBounds == {<<662, 2, 1>>, <<0, 2, 1>>, <<662, -1, 1>>, <<662, 2, -1>>}

\* The <<estimated_mass_g, mass_uncertainty_g>> a writer sends: two within
\* the bounds and one out of each bound.
MassesAtBounds == {<<2, 1>>, <<0, 1>>, <<-1, 1>>, <<2, -1>>}

\* An INSERT or UPDATE is logged as the table it names and the row it sends.
NextBounds ==
    \/ \E id \in SessionIds, threshold \in ThresholdInputs :
           LET row == Session(id, threshold)
           IN  INSERT_analysis_sessions(row) /\ Logged(<<"analysis_sessions", row>>)
    \/ \E id \in SessionIds : DELETE_analysis_sessions(id) /\ Logged(NULL)
    \/ \E id \in SessionIds, sent \in DetectionsAtBounds :
           LET row == Detection(id, "Cs-137", sent[1], sent[2], sent[3], NULL)
           IN  INSERT_isotope_detections(<<row>>) /\ Logged(<<"isotope_detections", row>>)
    \/ \E old \in isotope_detections, sent \in DetectionsAtBounds :
           LET row == [old EXCEPT !.gamma_energy_kev = sent[1],
                                  !.detected_counts = sent[2],
                                  !.count_uncertainty = sent[3]]
           IN  UPDATE_isotope_detections(old, row) /\ Logged(<<"isotope_detections", row>>)
    \/ \E id \in SessionIds, sent \in MassesAtBounds :
           LET row == MassEstimate(id, "Cs-137", sent[1], sent[2], NULL)
           IN  INSERT_mass_estimates(<<row>>) /\ Logged(<<"mass_estimates", row>>)
    \/ \E old \in mass_estimates, sent \in MassesAtBounds :
           LET row == [old EXCEPT !.estimated_mass_g = sent[1],
                                  !.mass_uncertainty_g = sent[2]]
           IN  UPDATE_mass_estimates(old, row) /\ Logged(<<"mass_estimates", row>>)

SpecBounds == Init /\ [][NextBounds]_vars

\* A fraction <<n, d>>, d > 0, or NULL, is not negative.
NotNegativeOrUndefined(x) == x = NULL \/ x[1] >= 0

\* The bounds of the fields of a row of a table.
InBounds(table, row) ==
    CASE table = "analysis_sessions" ->
             /\ row.confidence_threshold[1] > 0
             /\ row.confidence_threshold[1] <= row.confidence_threshold[2]
      [] table = "isotope_detections" ->
             /\ row.gamma_energy_kev > 0
             /\ row.detected_counts >= 0
             /\ row.count_uncertainty >= 0
             /\ NotNegativeOrUndefined(row.relative_uncertainty)
      [] table = "mass_estimates" ->
             /\ row.estimated_mass_g >= 0
             /\ row.mass_uncertainty_g >= 0
             /\ NotNegativeOrUndefined(row.relative_mass_uncertainty)

FieldBounds ==
    /\ \A s \in analysis_sessions : InBounds("analysis_sessions", s)
    /\ \A d \in isotope_detections : InBounds("isotope_detections", d)
    /\ \A m \in mass_estimates : InBounds("mass_estimates", m)

\* C20: after every statement every stored session, detection and mass
\* estimate is within its bounds, and a statement that sends a row out of
\* its bounds raises check_violation and leaves every table as it was.
C20_FieldBounds ==
    [][/\ FieldBounds'
       /\ (request' # NULL /\ ~InBounds(request'[1], request'[2]))
              => sqlstate' = check_violation /\ UNCHANGED tables]_vars

\* An UPDATE that sends negative counts to a stored detection was rejected,
\* next to a stored session and a stored mass estimate.
C20_Witness ==
    /\ request # NULL
    /\ request[1] = "isotope_detections"
    /\ request[2].detected_counts < 0
    /\ request[2].gamma_energy_kev > 0
    /\ sqlstate = check_violation
    /\ \E d \in isotope_detections : d.analysis_id = request[2].analysis_id
    /\ mass_estimates # {}

\* ------------------------------------- writes are local to a session (C21)

\* Every statement is logged as the sessions it names (the analysis_id of
\* the row it sends and of the row it replaces or deletes) and its verb.
\* The plot of a session has the id of the session.
NextLocal ==
    \/ \E id \in SessionIds :
           INSERT_analysis_sessions(Session(id, <<1, 1>>)) /\ Logged(<<{id}, "INSERT">>)
    \/ \E id \in SessionIds :
           DELETE_analysis_sessions(id) /\ Logged(<<{id}, "DELETE">>)
    \/ \E id \in SessionIds :
           INSERT_isotope_detections(<<Detection(id, "Cs-137", 662, 2, 1, NULL)>>)
               /\ Logged(<<{id}, "INSERT">>)
    \/ \E old \in isotope_detections : \E id \in SessionIds :
           UPDATE_isotope_detections(old, [old EXCEPT !.analysis_id = id])
               /\ Logged(<<{old.analysis_id, id}, "UPDATE">>)
    \/ \E old \in isotope_detections :
           DELETE_isotope_detections(old) /\ Logged(<<{old.analysis_id}, "DELETE">>)
    \/ \E id \in SessionIds :
           INSERT_mass_estimates(<<MassEstimate(id, "Cs-137", 2, 1, NULL)>>)
               /\ Logged(<<{id}, "INSERT">>)
    \/ \E old \in mass_estimates : \E id \in SessionIds :
           UPDATE_mass_estimates(old, [old EXCEPT !.analysis_id = id])
               /\ Logged(<<{old.analysis_id, id}, "UPDATE">>)
    \/ \E old \in mass_estimates :
           DELETE_mass_estimates(old) /\ Logged(<<{old.analysis_id}, "DELETE">>)
    \/ \E id \in SessionIds :
           INSERT_analysis_summary(Summary(id, 2, 1, 1, <<"Cs-137">>))
               /\ Logged(<<{id}, "INSERT">>)
    \/ \E old \in analysis_summary : \E id \in SessionIds :
           UPDATE_analysis_summary(old, [old EXCEPT !.analysis_id = id])
               /\ Logged(<<{old.analysis_id, id}, "UPDATE">>)
    \/ \E old \in analysis_summary :
           DELETE_analysis_summary(old) /\ Logged(<<{old.analysis_id}, "DELETE">>)
    \/ \E id \in SessionIds :
           INSERT_analysis_plots(Plot(id, id, "roi_plot", PlotMetadata(<<"Cs-137">>, <<662>>)))
               /\ Logged(<<{id}, "INSERT">>)
    \/ \E old \in analysis_plots :
           UPDATE_analysis_plots(old, [old EXCEPT !.plot_type = "histogram"])
               /\ Logged(<<{old.analysis_id}, "UPDATE">>)
    \/ \E old \in analysis_plots :
           DELETE_analysis_plots(old) /\ Logged(<<{old.analysis_id}, "DELETE">>)

SpecLocal == Init /\ [][NextLocal]_vars

\* The session of this id with its plots, detections, mass estimates and
\* summary.
SessionRecords(id) ==
    <<{s \in analysis_sessions : s.id = id},
      {r \in analysis_plots : r.analysis_id = id},
      {r \in isotope_detections : r.analysis_id = id},
      {r \in mass_estimates : r.analysis_id = id},
      {r \in analysis_summary : r.analysis_id = id}>>

\* C21: a statement, accepted or rejected, and the deletion of a session
\* leave the session, plots, detections, mass estimates and summary of every
\* session the statement does not name as they were.
C21_WritesAreLocal ==
    [][request' # NULL =>
           \A other \in SessionIds \ request'[1] :
               SessionRecords(other)' = SessionRecords(other)]_vars

\* Session 1 was deleted while session 2 has a row in every table.
C21_Witness ==
    /\ request = <<{1}, "DELETE">>
    /\ ~SessionExists(1)
    /\ \A i \in 1 .. 5 : SessionRecords(2)[i] # {}

\* ----------------------------------------- updates of a session (C22)

\* A row of analysis_sessions with every column; the timestamps are the
\* reading of NOW() when the row is created.
SessionRow(id, sample_filename, background_filename, threshold, metadata, now) ==
    [id |-> id, sample_filename |-> sample_filename,
     background_filename |-> background_filename, confidence_threshold |-> threshold,
     analysis_timestamp |-> now, metadata |-> metadata, created_at |-> now,
     updated_at |-> now]

\* The trigger function update_updated_at_column, NOW() reading now.
update_updated_at_column(new, now) == [new EXCEPT !.updated_at = now]

\* UPDATE analysis_sessions SET (the columns of set) WHERE id = old.id, with
\* the BEFORE UPDATE trigger; the foreign keys of the child tables take no
\* action on an update of the key, so a referenced id cannot change.
UPDATE_analysis_sessions(old, set, now) ==
    LET new == update_updated_at_column(set, now)
    IN  /\ old \in analysis_sessions
        /\ sqlstate' =
               IF ~analysis_sessions_check(new) THEN check_violation
               ELSE IF \E s \in analysis_sessions \ {old} : s.id = new.id
                    THEN unique_violation
               ELSE IF new.id # old.id /\ \E r \in ChildRows : r.analysis_id = old.id
                    THEN foreign_key_violation
               ELSE successful_completion
        /\ analysis_sessions' =
               IF sqlstate' = successful_completion
               THEN (analysis_sessions \ {old}) \cup {new} ELSE analysis_sessions
        /\ UNCHANGED <<analysis_plots, isotope_detections, mass_estimates, analysis_summary>>

\* The readings of NOW().
Clock == {1, 2}

\* The rows an UPDATE sends in place of old: one column changed.
SessionUpdates(old) ==
    {[old EXCEPT !.id = id] : id \in SessionIds}
        \cup {[old EXCEPT !.sample_filename = "renamed.csv"],
              [old EXCEPT !.background_filename = "other_background.csv"],
              [old EXCEPT !.confidence_threshold = <<1, 2>>],
              [old EXCEPT !.confidence_threshold = <<2, 1>>],
              [old EXCEPT !.metadata = "{\"note\": 1}"]}

\* An UPDATE is logged as the row it replaces and the row it sends.
NextSessions ==
    \/ \E id \in SessionIds :
           LET row == SessionRow(id, SampleFilenames[id], "background.csv", <<1, 1>>, "{}", 1)
           IN  INSERT_analysis_sessions(row) /\ Logged(NULL)
    \/ \E id \in SessionIds : DELETE_analysis_sessions(id) /\ Logged(NULL)
    \/ \E old \in analysis_sessions : \E set \in SessionUpdates(old) : \E now \in Clock :
           /\ now >= old.updated_at
           /\ UPDATE_analysis_sessions(old, set, now)
           /\ Logged(<<old, set>>)

SpecSessions == Init /\ [][NextSessions]_vars

\* C22: the session an update replaces is stored afterwards with the same
\* identifier, sample filename, background filename and confidence threshold.
C22_SessionImmutable ==
    (request # NULL /\ sqlstate = successful_completion) =>
        \E s \in analysis_sessions :
            /\ s.id = request[1].id
            /\ s.sample_filename = request[1].sample_filename
            /\ s.background_filename = request[1].background_filename
            /\ s.confidence_threshold = request[1].confidence_threshold

\* ------------------------------------------- get_analysis_plots (C23)

\* The <<plot_type, gamma_energy_kev of the metadata>> of the plots a writer
\* stores: one of each type without energy, regions of interest with two
\* energies, and a region of interest whose energy is a text that spells no
\* number, which the unconstrained plot_metadata column accepts.
PlotKinds ==
    {<<"spectrum_overview", NULL>>, <<"mass_distribution", NULL>>,
     <<"uncertainty_analysis", NULL>>, <<"roi_plot", <<511>>>>, <<"roi_plot", <<662>>>>,
     <<"roi_plot", NULL>>, <<"roi_plot", JSON_string("high")>>}

\* SELECT * FROM get_analysis_plots(id): the call is logged as its argument
\* and the rows it returns, none when the cast of an energy raised; a
\* function that only SELECTs writes no table.
SELECT_get_analysis_plots(id) ==
    /\ sqlstate' = get_analysis_plots_sqlstate(id)
    /\ UNCHANGED tables
    /\ Logged(<<id, get_analysis_plots(id)>>)

\* SELECT * FROM plot_catalog by a client that keeps only the SQLSTATE.
SELECT_plot_catalog ==
    /\ sqlstate' = plot_catalog_sqlstate
    /\ UNCHANGED tables
    /\ Logged(NULL)

NextPlotsOf ==
    \/ \E id \in SessionIds :
           INSERT_analysis_sessions(Session(id, <<1, 1>>)) /\ Logged(NULL)
    \/ \E id \in SessionIds : DELETE_analysis_sessions(id) /\ Logged(NULL)
    \/ \E pid \in 1 .. MaxReturned, id \in SessionIds, kind \in PlotKinds :
           INSERT_analysis_plots(Plot(pid, id, kind[1], PlotMetadata(<<"Cs-137">>, kind[2])))
               /\ Logged(NULL)
    \/ \E old \in analysis_plots : DELETE_analysis_plots(old) /\ Logged(NULL)
    \/ \E id \in SessionIds : SELECT_get_analysis_plots(id)
    \/ SELECT_plot_catalog

SpecPlotsOf == Init /\ [][NextPlotsOf]_vars

\* The columns get_analysis_plots returns of a plot.
Returned(plot) ==
    [plot_type |-> plot.plot_type, plot_title |-> plot.plot_title,
     plot_data_base64 |-> plot.plot_data_base64, plot_metadata |-> plot.plot_metadata]

\* Row a may come before row b: a lower type rank, or the same type and a
\* lower or equal energy, a row without energy after every row with one.
MayPrecede(a, b) ==
    LET type_rank(row) == CASE row.plot_type = "spectrum_overview" -> 1
                       [] row.plot_type = "mass_distribution" -> 2
                       [] row.plot_type = "uncertainty_analysis" -> 3
                       [] row.plot_type = "roi_plot" -> 4
        energy(row) == row.plot_metadata.gamma_energy_kev
    IN  \/ type_rank(a) < type_rank(b)
        \/ /\ type_rank(a) = type_rank(b)
           /\ \/ energy(b) = NULL
              \/ energy(a) # NULL /\ energy(b) # NULL /\ energy(a)[1] <= energy(b)[1]

\* The rows the logged call returned are the plots of its session, each
\* once, in the order of type rank and energy.
ReturnedPlotsOfSession ==
    LET rows == request[2]
        own == {plot \in analysis_plots : plot.analysis_id = request[1]}
    IN  /\ Len(rows) = Cardinality(own)
        /\ \A plot \in analysis_plots :
               Cardinality({i \in DOMAIN rows : rows[i] = Returned(plot)})
                   = Cardinality({o \in own : Returned(o) = Returned(plot)})
        /\ \A i, j \in DOMAIN rows : i < j => MayPrecede(rows[i], rows[j])

\* C23: get_analysis_plots(S) returns exactly the plots of session S, each
\* once and none of another session, by type rank overview < mass
\* distribution < uncertainty < region of interest and within a type by
\* ascending energy with the plots without energy last, and the call leaves
\* every table as it was.  The call of a session one of whose plots has an
\* energy text that spells no number raises and returns no plot.
C23_PlotsOfSessionInOrder ==
    [][request' # NULL => (UNCHANGED tables /\ ReturnedPlotsOfSession')]_vars

\* ------------------------ selections while details are in flight (C24)

\* The writer stores sessions and one detection for each; the user selects
\* analyses at any time, and every query answers without error, the answers
\* of different calls in any order.
NextSelect ==
    \/ \E id \in SessionIds :
           INSERT_analysis_sessions(Session(id, <<1, 1>>)) /\ UNCHANGED unlogged
    \/ \E id \in SessionIds :
           INSERT_isotope_detections(<<Detection(id, "Cs-137", 662, 2, 1, NULL)>>)
               /\ UNCHANGED unlogged
    \/ fetchLatestAnalyses_answer(FALSE) /\ UNCHANGED seen
    \/ \E i \in DOMAIN latestAnalyses : onClick(latestAnalyses[i]) /\ UNCHANGED seen
    \/ \E slot \in CallSlots : fetchAnalysisDetails_detections(slot, FALSE) /\ UNCHANGED seen
    \/ \E slot \in CallSlots : fetchAnalysisDetails_mass(slot, FALSE) /\ UNCHANGED seen
    \/ \E slot \in CallSlots : fetchAnalysisDetails_plots(slot, FALSE) /\ UNCHANGED seen

SpecSelect == Init /\ [][NextSelect]_vars

\* The rows of the three lists the dashboard shows.
Displayed ==
    {detections[i] : i \in DOMAIN detections}
        \cup {massEstimates[i] : i \in DOMAIN massEstimates}
        \cup {plots[i] : i \in DOMAIN plots}

\* C24: when no call of fetchAnalysisDetails is in flight, every detection,
\* mass estimate and plot shown belongs to the selected analysis.
C24_DetailsOfSelection ==
    FreeSlots = CallSlots =>
        \A row \in Displayed : <<row.analysis_id>> = selectedAnalysis

\* ------------------------------ a query of the details that fails (C25)

\* The writer stores sessions with a detection and a mass estimate; the user
\* selects an analysis while no call is in flight, and a query answers with
\* its rows or with an error.
NextDetails ==
    \/ \E id \in SessionIds :
           INSERT_analysis_sessions(Session(id, <<1, 1>>)) /\ UNCHANGED unlogged
    \/ \E id \in SessionIds :
           INSERT_isotope_detections(<<Detection(id, "Cs-137", 662, 2, 1, NULL)>>)
               /\ UNCHANGED unlogged
    \/ \E id \in SessionIds :
           INSERT_mass_estimates(<<MassEstimate(id, "Cs-137", 2, 1, NULL)>>)
               /\ UNCHANGED unlogged
    \/ \E error \in BOOLEAN :
           fetchLatestAnalyses_answer(error) /\ OneCallAtATime /\ UNCHANGED seen
    \/ \E i \in DOMAIN latestAnalyses :
           onClick(latestAnalyses[i]) /\ OneCallAtATime /\ UNCHANGED seen
    \/ \E slot \in CallSlots, error \in BOOLEAN :
           fetchAnalysisDetails_detections(slot, error) /\ UNCHANGED seen
    \/ \E slot \in CallSlots, error \in BOOLEAN :
           fetchAnalysisDetails_mass(slot, error) /\ UNCHANGED seen
    \/ \E slot \in CallSlots, error \in BOOLEAN :
           fetchAnalysisDetails_plots(slot, error) /\ UNCHANGED seen

SpecDetails == Init /\ [][NextDetails]_vars

\* C25: once a call of fetchAnalysisDetails has ended, with or without a
\* failed query, the detections, mass estimates and plots shown all belong
\* to the same analysis.
C25_DetailsAllOrNothing ==
    FreeSlots = CallSlots =>
        \A a, b \in Displayed : a.analysis_id = b.analysis_id

\* --------------------------------- IsotopeDashboard (src/app/page.tsx)

\* What a step of IsotopeDashboard leaves alone, but for the log.
outside_IsotopeDashboard == <<tables, sqlstate, isotope_analyses, dashboard, seen>>

\* data.slice(0, 5)
RecentLimit == 5

\* .order('timestamp', { ascending: false }): the latest row first; rows of
\* one timestamp come in the order the database happens to return them.
RECURSIVE order_by_timestamp_desc(_)
order_by_timestamp_desc(rows) ==
    IF rows = {} THEN <<>>
    ELSE LET first == CHOOSE r \in rows : \A other \in rows : r.timestamp >= other.timestamp
         IN  <<first>> \o order_by_timestamp_desc(rows \ {first})

\* supabase.from('isotope_analyses').select('*').order('timestamp', { ascending: false })
select_isotope_analyses == order_by_timestamp_desc(isotope_analyses)

\* ------------------------------------------ the numbers of JavaScript
\*
\* A number of JavaScript is an IEEE 754 double: 0, or a significand of 53
\* binary digits times a power of two.  Here a number >= 0 is
\* [significand, scale], the value significand / 2^scale, the significand a
\* natural number written in base 1024 with its least digit first.  The
\* operators are exact for operands below 2^21.

\* The number of binary digits of a natural number.
bit_length(k) == IF k = 0 THEN 0 ELSE CHOOSE b \in 1 .. 31 : k \div 2 ^ (b - 1) = 1

\* floor(log2(n / d)) for n > 0 and d > 0.
exponent(n, d) ==
    IF n >= d THEN bit_length(n \div d) - 1
    ELSE 0 - (CHOOSE k \in 1 .. 21 :
                  /\ (d + 2 ^ k - 1) \div 2 ^ k <= n
                  /\ (d + 2 ^ (k - 1) - 1) \div 2 ^ (k - 1) > n)

\* The digits of a natural number in base 1024, the least first.
RECURSIVE limbs(_)
limbs(k) == IF k = 0 THEN <<>> ELSE <<k % 1024>> \o limbs(k \div 1024)

\* The natural number of the digits.
RECURSIVE limbs_value(_)
limbs_value(digits) ==
    IF digits = <<>> THEN 0 ELSE digits[1] + 1024 * limbs_value(Tail(digits))

\* The digits without the zeros above the highest digit that is not zero.
trim(digits) ==
    Let(digits, LAMBDA all :
        SubSeq(all, 1, Cardinality({i \in DOMAIN all :
                                       \E k \in DOMAIN all : k >= i /\ all[k] # 0})))

\* The first `count` digits in base 1024 of r / d after the point, for
\* r < d, the least first, and what is left to divide after them.
RECURSIVE quotient_limbs(_, _, _)
quotient_limbs(r, d, count) ==
    IF count = 0 THEN <<>>
    ELSE quotient_limbs((r * 1024) % d, d, count - 1) \o <<(r * 1024) \div d>>

RECURSIVE remainder_after(_, _, _)
remainder_after(r, d, count) ==
    IF count = 0 THEN r ELSE remainder_after((r * 1024) % d, d, count - 1)

\* The digits of the number plus unit, for unit <= 1024 - digits[1] % unit.
RECURSIVE plus(_, _)
plus(digits, unit) ==
    IF digits = <<>> THEN limbs(unit)
    ELSE IF digits[1] + unit < 1024 THEN <<digits[1] + unit>> \o Tail(digits)
    ELSE <<digits[1] + unit - 1024>> \o plus(Tail(digits), 1)

\* The digits of the number times c, plus carry.
RECURSIVE product(_, _, _)
product(digits, c, carry) ==
    IF digits = <<>> THEN limbs(carry)
    ELSE <<(digits[1] * c + carry) % 1024>>
             \o product(Tail(digits), c, (digits[1] * c + carry) \div 1024)

\* The number with its significand rounded to 53 binary digits, to the
\* nearest and a tie to the even one, when fewer than 10 digits go.
round_to_nearest(digits) ==
    Let(digits, LAMBDA all :
        IF all = <<>> THEN all
        ELSE Let(10 * (Len(all) - 1) + bit_length(all[Len(all)]) - 53, LAMBDA drop :
                 IF drop <= 0 THEN all
                 ELSE LET unit == 2 ^ drop
                          low == all[1] % unit
                          odd == (all[1] \div unit) % 2 = 1
                          down == <<all[1] - low>> \o Tail(all)
                      IN  IF 2 * low > unit \/ (2 * low = unit /\ odd)
                          THEN plus(down, unit)
                          ELSE down))

\* The double nearest to n / d for integers n > 0 and d > 0, given the
\* scale that leaves 53 binary digits before the point.
nearest_quotient(n, d, scale) ==
    Let((n * 2 ^ (scale % 10)) % d, LAMBDA r :
        Let(trim(quotient_limbs(r, d, scale \div 10)
                     \o limbs((n * 2 ^ (scale % 10)) \div d)), LAMBDA floor :
            Let(remainder_after(r, d, scale \div 10), LAMBDA rest :
                [significand |->
                     IF 2 * rest > d \/ (2 * rest = d /\ floor[1] % 2 = 1)
                     THEN plus(floor, 1)
                     ELSE floor,
                 scale |-> scale])))

\* n / d for integers n >= 0 and d > 0: the double nearest to the quotient.
divide(n, d) ==
    Let(<<n, d>>, LAMBDA of :
        IF of[1] = 0 THEN [significand |-> <<>>, scale |-> 0]
        ELSE Let(52 - exponent(of[1], of[2]), LAMBDA scale :
                 nearest_quotient(of[1], of[2], scale)))

\* x * c for a number x and an integer c > 0: the double nearest to the
\* product.
multiply(x, c) ==
    Let(x, LAMBDA number :
        [significand |-> round_to_nearest(trim(product(number.significand, c, 0))),
         scale |-> number.scale])

\* The integer n for which n / power is nearest to the number, the larger of
\* two that are as near.
nearest_multiple(x, power) ==
    Let(x, LAMBDA number :
        Let(product(number.significand, power, 0), LAMBDA scaled :
            LET whole == number.scale \div 10
                bits == number.scale % 10
                digit(i) == IF i >= 1 /\ i <= Len(scaled) THEN scaled[i] ELSE 0
                half == IF number.scale = 0 THEN 0
                        ELSE IF bits > 0
                        THEN (digit(whole + 1) \div 2 ^ (bits - 1)) % 2
                        ELSE (digit(whole) \div 512) % 2
            IN  limbs_value(SubSeq(scaled, whole + 1, Len(scaled))) \div 2 ^ bits
                    + half))

\* x.toFixed(fractionDigits) for fractionDigits 1 or 2, as
\* <<typeof, integer part, fraction digits>>.
toFixed(x, fractionDigits) ==
    Let(nearest_multiple(x, 10 ^ fractionDigits), LAMBDA n :
        <<"string", n \div 10 ^ fractionDigits, n % 10 ^ fractionDigits>>)

\* ------------------------ a REAL column on its way to a JavaScript number
\*
\* A REAL is an IEEE 754 single: a significand of 24 binary digits.  The
\* database sends it as the shortest decimal text that reads back as the
\* same REAL, and JSON.parse reads the text as the double nearest to it.

\* The digits of the number times c, for 0 < c <= 2^20.
times(digits, c) == Let(digits, LAMBDA all : trim(product(all, c, 0)))

\* The digits of 10^q.
RECURSIVE power_of_ten(_)
power_of_ten(q) == IF q = 0 THEN <<1>> ELSE times(power_of_ten(q - 1), 10)

\* The digits of the sum of two numbers and a carry.
RECURSIVE sum_limbs(_, _, _)
sum_limbs(a, b, carry) ==
    IF a = <<>> /\ b = <<>> THEN limbs(carry)
    ELSE LET t == (IF a = <<>> THEN 0 ELSE a[1]) + (IF b = <<>> THEN 0 ELSE b[1]) + carry
         IN  <<t % 1024>> \o sum_limbs(IF a = <<>> THEN <<>> ELSE Tail(a),
                                       IF b = <<>> THEN <<>> ELSE Tail(b),
                                       t \div 1024)

\* -1, 0 or 1 as the first number is less than, equal to or greater than the
\* second, for digits without zeros above the highest digit.
compare(a, b) ==
    Let(<<a, b>>, LAMBDA both :
        IF Len(both[1]) # Len(both[2])
        THEN (IF Len(both[1]) < Len(both[2]) THEN -1 ELSE 1)
        ELSE Let({i \in 1 .. Len(both[1]) : both[1][i] # both[2][i]}, LAMBDA differ :
                 IF differ = {} THEN 0
                 ELSE Let(CHOOSE i \in differ : \A k \in differ : k <= i, LAMBDA top :
                          IF both[1][top] < both[2][top] THEN -1 ELSE 1)))

\* The digits of the number times 2^bits.
shift_left(digits, bits) ==
    [i \in 1 .. bits \div 10 |-> 0] \o times(digits, 2 ^ (bits % 10))

\* The digits of the number divided by 2^bits, rounded down.
shift_right(digits, bits) ==
    Let(digits, LAMBDA all :
        LET whole == bits \div 10
            part == 2 ^ (bits % 10)
            at(i) == IF i <= Len(all) THEN all[i] ELSE 0
        IN  trim([i \in 1 .. Len(all) - whole |->
                     at(i + whole) \div part
                         + (at(i + whole + 1) % part) * (1024 \div part)]))

\* The digits of the number modulo 2^bits.
low_bits(digits, bits) ==
    Let(digits, LAMBDA all :
        trim([i \in 1 .. Len(all) |->
                 IF 10 * i <= bits THEN all[i]
                 ELSE IF 10 * (i - 1) < bits THEN all[i] % 2 ^ (bits - 10 * (i - 1))
                 ELSE 0]))

\* The number of binary digits of the number of the digits.
limbs_length(digits) ==
    Let(digits, LAMBDA all :
        IF all = <<>> THEN 0 ELSE 10 * (Len(all) - 1) + bit_length(all[Len(all)]))

\* The number modulo d and divided by d, rounded down, for 0 < d < 2^21.
RECURSIVE remainder_by(_, _)
remainder_by(digits, d) ==
    IF digits = <<>> THEN 0
    ELSE (remainder_by(Tail(digits), d) * 1024 + digits[1]) % d

quotient_by(digits, d) ==
    Let(digits, LAMBDA all :
        trim([i \in 1 .. Len(all) |->
                 (remainder_by(SubSeq(all, i + 1, Len(all)), d) * 1024 + all[i]) \div d]))

\* The number divided by 2^drop, for drop >= 1, rounded to the nearest and a
\* tie to the even one; inexact tells that the number was rounded down
\* before.
round_bits(digits, drop, inexact) ==
    Let(<<digits, shift_right(digits, drop)>>, LAMBDA of :
        IF /\ shift_right(of[1], drop - 1) # <<>>
           /\ shift_right(of[1], drop - 1)[1] % 2 = 1
           /\ \/ inexact
              \/ low_bits(of[1], drop - 1) # <<>>
              \/ (of[2] # <<>> /\ of[2][1] % 2 = 1)
        THEN plus(of[2], 1)
        ELSE of[2])

\* NEW.count_uncertainty / NEW.detected_counts on REAL operands that are
\* integers n > 0 and d > 0 below 2^21: the REAL nearest to the quotient.
float4div(n, d) ==
    Let(<<n, d>>, LAMBDA of :
        Let(23 - exponent(of[1], of[2]), LAMBDA scale :
            nearest_quotient(of[1], of[2], scale)))

\* The decimal text of significand / 2^scale with q digits after the point
\* when one reads back as the same REAL, the nearest to it of the two next
\* to it and the even one of two as near; otherwise the text with more
\* digits.  scaled is significand * 10^q and power is 10^q.  The text is
\* <<c, q>> for c / 10^q.
RECURSIVE shortest_text(_, _, _, _, _)
shortest_text(significand, scale, q, scaled, power) ==
    Let(<<scaled, power, low_bits(scaled, scale)>>, LAMBDA of :
        LET below == limbs_value(shift_right(of[1], scale))
            even == significand % 2 = 0
            within(order) == order < 0 \/ (even /\ order = 0)
            \* 8388608 = 2^23: the REAL below is half as far as the one above.
            reads_below ==
                within(compare(times(of[3], IF significand = 8388608 THEN 4 ELSE 2),
                               of[2]))
            reads_above ==
                within(compare(shift_left(<<1>>, scale + 1),
                               sum_limbs(of[2], times(of[3], 2), 0)))
            nearer == compare(times(of[3], 2), shift_left(<<1>>, scale))
        IN  IF reads_below /\ reads_above
            THEN <<IF nearer < 0 \/ (nearer = 0 /\ below % 2 = 0)
                   THEN below ELSE below + 1, q>>
            ELSE IF reads_below THEN <<below, q>>
            ELSE IF reads_above THEN <<below + 1, q>>
            ELSE shortest_text(significand, scale, q + 1,
                               times(of[1], 10), times(of[2], 10)))

\* float4out: the text of a REAL the database sends.
float4out(real) ==
    Let(real, LAMBDA of :
        shortest_text(limbs_value(of.significand), of.scale, 0, of.significand, <<1>>))

\* JSON.parse of the text <<c, q>>, for q <= 18: the double nearest to
\* c / 10^q, from c * 2^120 / 10^q = c * 2^(120 - q) / 5^q rounded down.
JSON_parse(text) ==
    IF text[1] = 0 THEN [significand |-> <<>>, scale |-> 0]
    ELSE Let(<<shift_left(limbs(text[1]), 120 - text[2]),
               5 ^ (IF text[2] < 9 THEN text[2] ELSE 9),
               5 ^ (IF text[2] < 9 THEN 0 ELSE text[2] - 9)>>, LAMBDA of :
         Let(quotient_by(of[1], of[2]), LAMBDA first :
         Let(quotient_by(first, of[3]), LAMBDA second :
         Let(limbs_length(second) - 53, LAMBDA drop :
             [significand |->
                  round_bits(second, drop,
                             \/ remainder_by(of[1], of[2]) # 0
                             \/ remainder_by(first, of[3]) # 0),
              scale |-> 120 - drop]))))

\* calculateStats(data), the stats it passes to setStats.
calculateStats(data) ==
    LET completedAnalyses == {i \in DOMAIN data : data[i].status = "completed"}
        totalIsotopes ==
            sum({<<i, Len(data[i].isotope_families_detected)>> : i \in completedAnalyses})
        freq == isotopeFreq({data[i] : i \in DOMAIN data})
        peaks == sum({<<i, data[i].total_peaks_found>> : i \in completedAnalyses})
    IN  [totalAnalyses |-> Len(data),
         completedAnalyses |-> Cardinality(completedAnalyses),
         totalIsotopes |-> totalIsotopes,
         uniqueIsotopes |-> Cardinality(DOMAIN freq),
         isotopeFrequency |-> freq,
         avgPeaks |-> IF Cardinality(completedAnalyses) > 0
                      THEN toFixed(divide(peaks, Cardinality(completedAnalyses)), 1)
                      ELSE <<"number", 0, 0>>,
         recentAnalyses |-> SubSeq(data, 1, IF Len(data) < RecentLimit
                                            THEN Len(data) ELSE RecentLimit)]

\* The slots no call of fetchAnalyses is running in.
FreeFetchSlots ==
    {slot \in FetchSlots : IsotopeDashboard.fetchAnalyses[slot] = "none"}

\* fetchAnalyses() up to its await: setLoading(true), which React drops once
\* the component is unmounted, and the query is sent.
fetchAnalyses ==
    LET slot == CHOOSE free \in FreeFetchSlots : \A other \in FreeFetchSlots : free <= other
    IN  /\ FreeFetchSlots # {}
        /\ IsotopeDashboard' =
               [IsotopeDashboard EXCEPT
                   !.loading = IF IsotopeDashboard.mounted THEN TRUE ELSE @,
                   !.fetchAnalyses[slot] = "isotope_analyses"]
        /\ UNCHANGED outside_IsotopeDashboard

\* fetchAnalyses() without its finally block: loading is set to false only
\* after the try block ran to its end.
fetchAnalyses_answer_no_finally(slot, error) ==
    /\ IsotopeDashboard.fetchAnalyses[slot] = "isotope_analyses"
    /\ \E patched \in {select_isotope_analyses} :
           IsotopeDashboard' =
               IF ~IsotopeDashboard.mounted
               THEN [IsotopeDashboard EXCEPT !.fetchAnalyses[slot] = "none"]
               ELSE IF error
               THEN [IsotopeDashboard EXCEPT !.fetchAnalyses[slot] = "none",
                                             !.analyses = <<>>, !.stats = NoStats]
               ELSE [IsotopeDashboard EXCEPT !.fetchAnalyses[slot] = "none",
                                             !.analyses = patched,
                                             !.stats = calculateStats(patched),
                                             !.loading = FALSE]
    /\ UNCHANGED outside_IsotopeDashboard

\* The query of a call of fetchAnalyses answers, with an error or with the
\* rows of the table: the call sets analyses and stats, in its catch block to
\* nothing, and in its finally block loading to false.
fetchAnalyses_answer(slot, error) ==
    /\ IsotopeDashboard.fetchAnalyses[slot] = "isotope_analyses"
    /\ \E patched \in {select_isotope_analyses} :
           IsotopeDashboard' =
               IF ~IsotopeDashboard.mounted
               THEN [IsotopeDashboard EXCEPT !.fetchAnalyses[slot] = "none"]
               ELSE IF error
               THEN [IsotopeDashboard EXCEPT !.fetchAnalyses[slot] = "none",
                                             !.analyses = <<>>, !.stats = NoStats,
                                             !.loading = FALSE]
               ELSE [IsotopeDashboard EXCEPT !.fetchAnalyses[slot] = "none",
                                             !.analyses = patched,
                                             !.stats = calculateStats(patched),
                                             !.loading = FALSE]
    /\ UNCHANGED outside_IsotopeDashboard

\* onClick={fetchAnalyses} of the Refresh button, which is rendered once
\* loading is false.
onClick_Refresh ==
    /\ IsotopeDashboard.mounted
    /\ ~IsotopeDashboard.loading
    /\ fetchAnalyses

\* A timer of the window fires and calls fetchAnalyses.
setInterval_fires(interval) ==
    /\ interval \in IsotopeDashboard.timers
    /\ fetchAnalyses

\* toggleAutoRefresh that sets refreshInterval to null without clearInterval.
toggleAutoRefresh_no_clearInterval ==
    /\ IsotopeDashboard.mounted
    /\ ~IsotopeDashboard.loading
    /\ IsotopeDashboard' =
           IF IsotopeDashboard.refreshInterval # NULL
           THEN [IsotopeDashboard EXCEPT !.refreshInterval = NULL]
           ELSE LET interval == CHOOSE id \in 1 .. Cardinality(IsotopeDashboard.timers) + 1 :
                                    id \notin IsotopeDashboard.timers
                IN  [IsotopeDashboard EXCEPT !.timers = @ \cup {interval},
                                              !.refreshInterval = <<interval>>]
    /\ UNCHANGED outside_IsotopeDashboard

\* onClick={toggleAutoRefresh} of the button rendered once loading is false:
\* the handler of the last render reads refreshInterval, clears that timer
\* or starts one, whose id is one no active timer has.
toggleAutoRefresh ==
    /\ IsotopeDashboard.mounted
    /\ ~IsotopeDashboard.loading
    /\ IsotopeDashboard' =
           IF IsotopeDashboard.refreshInterval # NULL
           THEN [IsotopeDashboard EXCEPT !.timers = @ \ {IsotopeDashboard.refreshInterval[1]},
                                         !.refreshInterval = NULL]
           ELSE LET interval == CHOOSE id \in 1 .. Cardinality(IsotopeDashboard.timers) + 1 :
                                    id \notin IsotopeDashboard.timers
                IN  [IsotopeDashboard EXCEPT !.timers = @ \cup {interval},
                                              !.refreshInterval = <<interval>>]
    /\ UNCHANGED outside_IsotopeDashboard

\* The component unmounts and React runs the cleanup of the effect, which ran
\* once, after the first render ([] dependencies): the refreshInterval the
\* cleanup reads is the one of that render.
unmount ==
    LET refreshInterval == useState.refreshInterval
    IN  /\ IsotopeDashboard.mounted
        /\ IsotopeDashboard' =
               [IsotopeDashboard EXCEPT
                   !.mounted = FALSE,
                   !.timers = IF refreshInterval # NULL THEN @ \ {refreshInterval[1]} ELSE @]
        /\ UNCHANGED outside_IsotopeDashboard

\* ---------------------------------- the auto-refresh timer (C26, C27)

\* The toggles the log has counted, none before the first.
Toggles == IF request = NULL THEN 0 ELSE request[2]

\* A step of the component is logged as its name and the number of toggles
\* so far, counted up to MaxToggles; a statement of the writer is not logged.
Step(name) ==
    request' = <<name, IF name = "toggleAutoRefresh" /\ Toggles < MaxToggles
                       THEN Toggles + 1 ELSE Toggles>>

NextRefresh ==
    \/ \E id \in AnalysisIds :
           INSERT_isotope_analyses(Analysis(id, "sample-a", <<"Cs-137">>, "completed", 1))
    \/ \E slot \in FetchSlots, error \in BOOLEAN :
           fetchAnalyses_answer(slot, error) /\ Step("fetchAnalyses")
    \/ onClick_Refresh /\ Step("onClick")
    \/ \E interval \in IsotopeDashboard.timers :
           setInterval_fires(interval) /\ Step("setInterval")
    \/ toggleAutoRefresh /\ Step("toggleAutoRefresh")
    \/ unmount /\ Step("unmount")

SpecRefresh == Init /\ [][NextRefresh]_vars

\* C26: once the component is unmounted no timer is active.
C26_NoTimerAfterUnmount ==
    ~IsotopeDashboard.mounted => IsotopeDashboard.timers = {}

\* C27: at most one timer is active, the active timer is the one that
\* refreshInterval holds, none when it is null, and a toggle turns a null
\* refreshInterval into a timer and a timer into null.
C27_OneTimerToggled ==
    [][/\ Cardinality(IsotopeDashboard.timers') <= 1
       /\ IsotopeDashboard.timers' =
              IF IsotopeDashboard.refreshInterval' = NULL THEN {}
              ELSE {IsotopeDashboard.refreshInterval'[1]}
       /\ (IsotopeDashboard' # IsotopeDashboard /\ request'[1] = "toggleAutoRefresh") =>
              (IsotopeDashboard.refreshInterval' = NULL)
                  # (IsotopeDashboard.refreshInterval = NULL)]_vars

\* The second toggle since the component mounted has run, with a fetch the
\* timer started still in flight: refreshInterval is null and no timer runs.
C27_Witness ==
    /\ request = <<"toggleAutoRefresh", 2>>
    /\ IsotopeDashboard.refreshInterval = NULL
    /\ IsotopeDashboard.timers = {}
    /\ FreeFetchSlots # FetchSlots

\* ------------------------------ the statistics of the list shown (C28)

\* The analysis the writer records as the id-th: its id is serial and its
\* timestamp that of its insertion; it lists one isotope, two, or one twice.
Listed(id, status) ==
    AnalysisAt(id, "sample-a",
               CASE id % 3 = 1 -> <<"Cs-137">>
                 [] id % 3 = 2 -> <<"Co-60", "Cs-137">>
                 [] OTHER -> <<"Cs-137", "Cs-137">>,
               status, id, id)

\* A step of the component is logged as its name and whether its query
\* failed; a statement of the writer is not logged.  The component unmounts
\* at any time, with calls in flight or a timer running.
NextStats ==
    \/ \E status \in {"completed", "pending"} :
           /\ Cardinality(isotope_analyses) < MaxListed
           /\ INSERT_isotope_analyses(Listed(Cardinality(isotope_analyses) + 1, status))
    \/ \E slot \in FetchSlots, error \in BOOLEAN :
           fetchAnalyses_answer(slot, error) /\ request' = <<"fetchAnalyses", error>>
    \/ onClick_Refresh /\ request' = <<"onClick", FALSE>>
    \/ \E interval \in IsotopeDashboard.timers :
           setInterval_fires(interval) /\ request' = <<"setInterval", FALSE>>
    \/ toggleAutoRefresh /\ request' = <<"toggleAutoRefresh", FALSE>>
    \/ unmount /\ request' = <<"unmount", FALSE>>

SpecStats == Init /\ [][NextStats]_vars

\* The number of times the completed analyses of the list shown list the
\* isotope.
TimesListed(isotope) ==
    LET analyses == IsotopeDashboard.analyses
        families(i) == analyses[i].isotope_families_detected
    IN  Cardinality(UNION {{<<i, j>> : j \in {k \in DOMAIN families(i) :
                                                 families(i)[k] = isotope}} :
                              i \in {c \in DOMAIN analyses :
                                         analyses[c].status = "completed"}})

\* The statistics are those of the list of analyses: the number of
\* analyses, the number of completed ones, for each isotope the times the
\* completed ones list it, which sum to totalIsotopes, the number of
\* isotopes listed at least once, and the first five analyses or all of
\* fewer; avgPeaks is the number 0 when none is completed.
StatsOfAnalyses ==
    LET analyses == IsotopeDashboard.analyses
        stats == IsotopeDashboard.stats
        completed == {i \in DOMAIN analyses : analyses[i].status = "completed"}
        frequency == stats.isotopeFrequency
    IN  /\ stats.totalAnalyses = Len(analyses)
        /\ stats.completedAnalyses = Cardinality(completed)
        /\ \A isotope \in {"Cs-137", "Co-60"} :
               IF TimesListed(isotope) >= 1
               THEN isotope \in DOMAIN frequency /\ frequency[isotope] = TimesListed(isotope)
               ELSE isotope \notin DOMAIN frequency
        /\ DOMAIN frequency \subseteq {"Cs-137", "Co-60"}
        /\ sum({<<isotope, frequency[isotope]>> : isotope \in DOMAIN frequency})
               = stats.totalIsotopes
        /\ stats.uniqueIsotopes
               = Cardinality({isotope \in DOMAIN frequency : frequency[isotope] >= 1})
        /\ Len(stats.recentAnalyses) = (IF Len(analyses) < 5 THEN Len(analyses) ELSE 5)
        /\ \A i \in DOMAIN stats.recentAnalyses : stats.recentAnalyses[i] = analyses[i]
        /\ completed = {} => stats.avgPeaks = <<"number", 0, 0>>

\* C28 as claimed: the statistics shown are those of the list of analyses
\* shown, and after any fetch that failed the list is empty and the
\* statistics are zero.
C28_StatsOfAnalyses ==
    /\ StatsOfAnalyses
    /\ request = <<"fetchAnalyses", TRUE>> =>
           IsotopeDashboard.analyses = <<>> /\ IsotopeDashboard.stats = NoStats

\* C28 as amended: the statistics are those of the list of analyses at all
\* times; after a fetch that failed while the component was mounted the list
\* is empty and the statistics are zero; and once the component has
\* unmounted, the answer of a fetch, failed or not, changes neither the list
\* nor the statistics.
C28_StatsOfAnalysesWhileMounted ==
    /\ [](StatsOfAnalyses)
    /\ []((request = <<"fetchAnalyses", TRUE>> /\ IsotopeDashboard.mounted) =>
              (IsotopeDashboard.analyses = <<>> /\ IsotopeDashboard.stats = NoStats))
    /\ [][~IsotopeDashboard.mounted =>
              /\ IsotopeDashboard'.analyses = IsotopeDashboard.analyses
              /\ IsotopeDashboard'.stats = IsotopeDashboard.stats]_vars

\* A fetch of the mounted component answered with six analyses, newest
\* first, of which some are pending and some completed, while another fetch
\* is in flight: five are recent and both isotopes are counted.
C28_Witness ==
    /\ request = <<"fetchAnalyses", FALSE>>
    /\ IsotopeDashboard.mounted
    /\ Len(IsotopeDashboard.analyses) = 6
    /\ IsotopeDashboard.analyses[1].id = 6
    /\ Len(IsotopeDashboard.stats.recentAnalyses) = 5
    /\ IsotopeDashboard.stats.completedAnalyses \in 1 .. 5
    /\ DOMAIN IsotopeDashboard.stats.isotopeFrequency = {"Cs-137", "Co-60"}
    /\ IsotopeDashboard.analyses[6].status = "pending"
    /\ FreeFetchSlots # FetchSlots

\* ------------------------------------- the loading flags (C29)

\* The two components fetch while the writer records analyses; every query
\* answers, with its rows or with an error, and each component unmounts at
\* any time, with its query in flight or not.
NextLoading ==
    \/ \E id \in AnalysisIds :
           INSERT_isotope_analyses(Analysis(id, "sample-a", <<"Cs-137">>, "completed", 1))
    \/ \E error \in BOOLEAN : fetchLatestAnalyses_answer(error) /\ UNCHANGED seen
    \/ \E slot \in FetchSlots, error \in BOOLEAN :
           fetchAnalyses_answer(slot, error) /\ UNCHANGED request
    \/ onClick_Refresh /\ UNCHANGED request
    \/ \E interval \in IsotopeDashboard.timers :
           setInterval_fires(interval) /\ UNCHANGED request
    \/ toggleAutoRefresh /\ UNCHANGED request
    \/ unmount /\ UNCHANGED request
    \/ unmount_AnalysisDashboard

\* A query that was sent answers.
FairLoading ==
    /\ WF_vars(\E error \in BOOLEAN : fetchLatestAnalyses_answer(error) /\ UNCHANGED seen)
    /\ \A slot \in FetchSlots :
           WF_vars(\E error \in BOOLEAN :
                       fetchAnalyses_answer(slot, error) /\ UNCHANGED request)

SpecLoading == Init /\ [][NextLoading]_vars /\ FairLoading

\* C29 as claimed: a call of fetchLatestAnalyses or of fetchAnalyses in
\* flight comes to its end, and when it does loading is false; while no call
\* of fetchAnalyses is in flight, and once fetchLatestAnalyses has returned,
\* loading is false.
C29_LoadingEnds ==
    /\ (fetchLatestAnalyses = "latest_analyses")
           ~> (fetchLatestAnalyses = "returned" /\ ~loading)
    /\ [](fetchLatestAnalyses = "returned" => ~loading)
    /\ \A slot \in FetchSlots :
           (IsotopeDashboard.fetchAnalyses[slot] = "isotope_analyses")
               ~> (IsotopeDashboard.fetchAnalyses[slot] = "none")
    /\ [](FreeFetchSlots = FetchSlots => ~IsotopeDashboard.loading)

\* C29 as amended: every call in flight comes to its end, of a mounted
\* component and of an unmounted one; when the call of a component that is
\* still mounted has ended, and with overlapping calls when the last of them
\* has, loading is false; a component that has unmounted keeps the loading
\* flag it had, true when its call was in flight, whatever answers later.
C29_LoadingEndsWhileMounted ==
    /\ (fetchLatestAnalyses = "latest_analyses")
           ~> (fetchLatestAnalyses = "returned" /\ (mounted => ~loading))
    /\ []((fetchLatestAnalyses = "returned" /\ mounted) => ~loading)
    /\ \A slot \in FetchSlots :
           (IsotopeDashboard.fetchAnalyses[slot] = "isotope_analyses")
               ~> (IsotopeDashboard.fetchAnalyses[slot] = "none")
    /\ []((FreeFetchSlots = FetchSlots /\ IsotopeDashboard.mounted)
              => ~IsotopeDashboard.loading)
    /\ [][~mounted => loading' = loading]_vars
    /\ [][~IsotopeDashboard.mounted =>
              IsotopeDashboard'.loading = IsotopeDashboard.loading]_vars

\* Two calls of fetchAnalyses overlapped, the one of the Refresh button and
\* one of the timer, and both have ended, the last after a failed query,
\* and the call of fetchLatestAnalyses has returned: both components are
\* mounted and loading is false in both.
C29_Witness ==
    /\ FreeFetchSlots = FetchSlots
    /\ IsotopeDashboard.mounted
    /\ mounted
    /\ IsotopeDashboard.refreshInterval # NULL
    /\ IsotopeDashboard.analyses = <<>>
    /\ isotope_analyses # {}
    /\ ~IsotopeDashboard.loading
    /\ fetchLatestAnalyses = "returned"
    /\ ~loading

\* ------------------------- relative uncertainties shown by AnalysisDashboard

\* The condition of `value ? ... : ...` on a column the query returned:
\* null and 0 are falsy, every other number is truthy.
truthy(value) == value # NULL /\ value[1] # 0

\* The last cell of a row of the detections table: the percentage with one
\* decimal followed by '%', or 'N/A'.
relative_uncertainty_cell(detection) ==
    IF truthy(detection.relative_uncertainty)
    THEN <<toFixed(multiply(JSON_parse(float4out(
                        float4div(detection.relative_uncertainty[1],
                                  detection.relative_uncertainty[2]))), 100), 1),
           "%">>
    ELSE <<"N/A">>

\* The "Relative:" line of a mass estimate: the percentage with two decimals
\* followed by '%', or 'N/A'.
relative_mass_uncertainty_line(estimate) ==
    IF truthy(estimate.relative_mass_uncertainty)
    THEN <<toFixed(multiply(JSON_parse(float4out(
                        float4div(estimate.relative_mass_uncertainty[1],
                                  estimate.relative_mass_uncertainty[2]))), 100), 2),
           "%">>
    ELSE <<"N/A">>

\* What the writer stores as <<counts or mass, uncertainty>>: a relative
\* uncertainty of 0, an undefined one and one of 1/2.
Magnitudes == {<<2, 0>>, <<0, 1>>, <<2, 1>>}

\* One detection and one mass estimate a session, stored by the writer and
\* shown by the dashboard.
NextDisplay ==
    \/ \E id \in SessionIds :
           INSERT_analysis_sessions(Session(id, <<1, 1>>)) /\ UNCHANGED unlogged
    \/ \E id \in SessionIds, sent \in Magnitudes :
           /\ \A d \in isotope_detections : d.analysis_id # id
           /\ INSERT_isotope_detections(
                  <<Detection(id, "Cs-137", 662, sent[1], sent[2], NULL)>>)
           /\ UNCHANGED unlogged
    \/ \E id \in SessionIds, sent \in Magnitudes :
           /\ \A m \in mass_estimates : m.analysis_id # id
           /\ INSERT_mass_estimates(
                  <<MassEstimate(id, "Cs-137", sent[1], sent[2], NULL)>>)
           /\ UNCHANGED unlogged
    \/ fetchLatestAnalyses_answer(FALSE) /\ OneCallAtATime /\ UNCHANGED seen
    \/ \E i \in DOMAIN latestAnalyses :
           onClick(latestAnalyses[i]) /\ OneCallAtATime /\ UNCHANGED seen
    \/ \E slot \in CallSlots : fetchAnalysisDetails_detections(slot, FALSE) /\ UNCHANGED seen
    \/ \E slot \in CallSlots : fetchAnalysisDetails_mass(slot, FALSE) /\ UNCHANGED seen
    \/ \E slot \in CallSlots : fetchAnalysisDetails_plots(slot, FALSE) /\ UNCHANGED seen

SpecDisplay == Init /\ [][NextDisplay]_vars

\* C30: a detection or a mass estimate the dashboard shows has 'N/A' for its
\* relative uncertainty exactly when the stored relative uncertainty is
\* undefined; a stored 0 is shown as a percentage.
C30_NotAvailableIffUndefined ==
    /\ \A i \in DOMAIN detections :
           relative_uncertainty_cell(detections[i]) = <<"N/A">>
               <=> detections[i].relative_uncertainty = NULL
    /\ \A i \in DOMAIN massEstimates :
           relative_mass_uncertainty_line(massEstimates[i]) = <<"N/A">>
               <=> massEstimates[i].relative_mass_uncertainty = NULL

====
